---- MODULE Spec2Model ----
(***************************************************************************)
(* Resilience layer of the Signal RAG bot: CircuitBreaker and RateLimiter  *)
(* (security.py) and retry_with_backoff (error_handling.py).               *)
(*                                                                         *)
(* Time is the value of time.time(), modelled as a natural number of       *)
(* clock units; the clock never goes backwards.                            *)
(*                                                                         *)
(* One specification per component, all over the same variables:           *)
(*   SpecCB        one CircuitBreaker, any threshold and timeout           *)
(*   SpecRL        the RateLimiter, one identity, serial calls             *)
(*   SpecRLPair    the RateLimiter, all identities, serial calls           *)
(*   SpecThreads   the RateLimiter called from two threads                 *)
(*   SpecRetry     one execution of retry_with_backoff                     *)
(*   SpecCBLive    the CircuitBreaker, operation succeeding for good       *)
(*   SpecBot       the message loop of signal_bot_rag.py                   *)
(*   SpecBotFlood  the message loop under a flood of questions             *)
(*   SpecChunk     one call of chunk_text, valid overlap                   *)
(*   SpecChunkAny  one call of chunk_text, any overlap                     *)
(*   SpecAnomaly   the AnomalyDetector                                     *)
(*   SpecRag       build, save, load and search of a CustomRAG             *)
(*   SpecRagServe  search while load_index runs on the instance            *)
(*   SpecErr       categorize_error and handle_openai_error                *)
(*   SpecAlert     AlertManager.handle_error                               *)
(*   SpecAlertRate AlertManager.check_error_rate                           *)
(***************************************************************************)
EXTENDS Integers, Sequences, FiniteSets, TLC

\* ------------------------------------------------------------------ bounds
\* Last clock value explored.
MaxTime == 9
\* Longest time the wrapped operation of CircuitBreaker.call may take.
MaxFuncTime == 1
\* Constructor arguments of CircuitBreaker explored: 0..MaxThreshold, 0..MaxTimeout.
MaxThreshold == 3
MaxTimeout == 2
\* Cap on failure_count (the code's counter is unbounded).
MaxFailures == 5
\* Last clock value explored while two identities send messages.
MaxPairTime == 3
\* Last clock value explored while request threads interleave.
MaxThreadTime == 1
\* Arguments of retry_with_backoff explored: 0..MaxRetries, 1..MaxBaseDelay.
MaxRetries == 3
MaxBaseDelay == 3
MaxMsgs == 5         \* messages the loop takes
MaxBotTime == 2      \* clock range of the message loop
BotThreshold == 2    \* failure_threshold of openai_circuit_breaker, scaled
BotTimeout == 1      \* timeout of openai_circuit_breaker, scaled
MaxFloodMsgs == 6    \* messages the loop takes under a flood
MaxTextLen == 6      \* length of the text given to chunk_text
MaxChunkSize == 5    \* chunk_size given to chunk_text
MaxChunks == 4       \* chunks appended before the run is cut off
MaxSamples == 100    \* lengths recorded by the AnomalyDetector
MaxRagChunks == 3    \* chunks of a build, vectors and entries of a file
BatchSize == 2       \* batch_size of create_embeddings, scaled
MaxK == 4            \* k of a search
MaxAlertTime == 5    \* clock range of the AlertManager
MaxCooldown == 2     \* cooldown_seconds of the AlertManager
MaxAlerts == 4       \* alerts sent before the run is cut off
MaxRate == 1         \* error_rate_threshold, in percent
MaxRateTime == 3     \* clock range of the AlertManager with check_error_rate

\* monitoring.py:116  len(self.message_lengths) < 10
MinHistory == 10
\* monitoring.py:114  threshold_std: float = 3.0
ThresholdStd == 3
\* tests/test_monitoring.py:119-120: the baseline of the length test
BaselineCount == 100
BaselineLength == 50

\* ------------------------------------------------------------------ state
VARIABLES
    now,                \* time.time()
    \* CircuitBreaker (security.py:222-234)
    failure_threshold,
    timeout,
    failure_count,
    last_failure_time,
    state,
    \* what the last CircuitBreaker.call did
    cb_invoked,         \* TRUE iff it invoked the wrapped operation
    cb_outcome,         \* "none" | "returned" | "raised_open" | "raised_func"
    \* RateLimiter (security.py:57-58)
    user_messages,      \* defaultdict(deque): identity -> timestamps
    \* what check_rate_limit returned
    rl_user,            \* the identity of the last call ("none" before any)
    rl_result,          \* its return value
    accepted,           \* identity -> the times of all calls that returned True
    \* check_rate_limit running in request threads: per thread
    t_pc,               \* "idle" | "count" | "record" | "done"
    t_user,             \* user_id
    t_now,              \* now
    t_free,             \* slots the identity had left when the thread entered
    t_ok,               \* the return value
    \* retry_with_backoff (error_handling.py:16-55)
    max_retries,
    base_delay,
    attempt,
    last_exception,     \* the call of func that raised it, or None
    r_pc,               \* "call" | "sleep" | "returned" | "raised"
    r_raised,           \* the exception that left retry_with_backoff, or None
    calls,              \* what each call of func did: "ok" | "retryable" | "other"
    sleeps,             \* the argument of each time.sleep
    \* the message loop (signal_bot_rag.py:58-60, 231-336)
    activated_users,
    user_conversations, \* sender -> entries <<role, message>>
    b_pc,               \* where process_messages / get_rag_response stands
    cur,                \* the message being processed: [id, sender, kind]
    msg_count,          \* messages taken from receive_signal_messages so far
    \* what was done for the current message
    stages,             \* the stages passed, in order
    reply,              \* the text handed to send_signal_message, or "none"
    gen_entry,          \* breaker state the generation call proceeded in
    gen_attempts,       \* calls of call_openai
    \* what was done for any message: sets of message ids
    denied,             \* refused by the rate limiter
    searched,           \* rag.search was called
    generated,          \* call_openai was called
    \* MetricsCollector (monitoring.py:148-154)
    message_count,
    success_count,
    error_count,
    \* one call of CustomRAG.chunk_text (custom_rag.py:35-57)
    text,               \* the argument, a sequence of characters
    chunk_size,
    overlap,
    start,
    chunks,
    c_pc,               \* "idle", "loop" inside the while loop, "done" returned
    \* AnomalyDetector (monitoring.py:103-123)
    message_lengths,    \* the deque, as length -> number of entries
    an_asked,           \* is_anomalous_length has been called
    an_length,          \* its argument
    an_result,          \* what it returned
    \* a CustomRAG instance and the two files of the index (custom_rag.py:27-169)
    rag_pc,             \* how far build_rag_index, or load_index, has come
    rag_chunks,         \* len(self.chunks); chunk i is the entry at position i
    all_embeddings,     \* len(all_embeddings), local to create_embeddings
    rag_embeddings,     \* rows of self.embeddings, None before
    rag_index,          \* self.index.ntotal, None before
    file_index,         \* vectors in rag_faiss.index, None if absent
    file_meta,          \* entries in rag_index.pkl, None if absent
    s_k,                \* k of the last search
    s_results,          \* positions of the chunks its results were joined to
    s_outcome,          \* "none", "returned" or "raised"
    \* one search running in a request while load_index runs on the instance
    srv_pc,             \* "idle", or "join" between lines 159 and 163
    srv_labels,         \* indices[0] as self.index.search returned it
    srv_seen,           \* <<ntotal of the index read, len of the chunks read>>
    \* one exception given to categorize_error / handle_openai_error
    e_type,             \* type(error).__name__
    e_phrases,          \* the phrases tested for that str(error).lower() contains
    e_category,         \* result of categorize_error, "none" before
    e_action,           \* result of handle_openai_error, "none" before
    \* AlertManager (monitoring.py:284-309)
    error_rate_threshold, \* in percent
    cooldown_seconds,
    last_alerts,        \* error_type -> time, None if not a key
    sent,               \* the calls of send_alert: <<error_type, time>>
    al_call,            \* the last handle_error call: type, time, alert sent
    rate_call           \* the argument of the last check_error_rate, or None

cbVars == <<failure_threshold, timeout, failure_count, last_failure_time, state,
            cb_invoked, cb_outcome>>
rlVars == <<user_messages, rl_user, rl_result, accepted>>
thVars == <<t_pc, t_user, t_now, t_free, t_ok>>
retryVars == <<max_retries, base_delay, attempt, last_exception, r_pc, r_raised,
               calls, sleeps>>

botVars == <<activated_users, user_conversations, b_pc, cur, msg_count, stages,
             reply, gen_entry, gen_attempts, denied, searched, generated>>
metricVars == <<message_count, success_count, error_count>>

chunkVars == <<text, chunk_size, overlap, start, chunks, c_pc>>

anomalyVars == <<message_lengths, an_asked, an_length, an_result>>
ragVars == <<rag_pc, rag_chunks, all_embeddings, rag_embeddings, rag_index,
             file_index, file_meta, s_k, s_results, s_outcome>>
serveVars == <<srv_pc, srv_labels, srv_seen>>
errVars == <<e_type, e_phrases, e_category, e_action>>
alertVars == <<error_rate_threshold, cooldown_seconds, last_alerts, sent, al_call,
               rate_call>>

\* the components added after the message loop
laterVars == <<anomalyVars, ragVars, serveVars, errVars, alertVars>>

vars == <<now, cbVars, rlVars, thVars, retryVars, botVars, metricVars, chunkVars,
          laterVars>>

\* what the CircuitBreaker's actions leave alone, and the RateLimiter's
OutsideCB == <<rlVars, thVars, retryVars, botVars, metricVars, chunkVars, laterVars>>
OutsideRL == <<cbVars, thVars, retryVars, botVars, metricVars, chunkVars, laterVars>>
OutsideTh == <<cbVars, rl_user, rl_result, retryVars, botVars, metricVars, chunkVars, laterVars>>
OutsideRetry == <<now, cbVars, rlVars, thVars, botVars, metricVars, chunkVars, laterVars>>
OutsideBot == <<thVars, retryVars, metricVars, chunkVars, laterVars>>
OutsideChunk == <<now, cbVars, rlVars, thVars, retryVars, botVars, metricVars,
                  laterVars>>
Earlier == <<cbVars, rlVars, thVars, retryVars, botVars, metricVars, chunkVars>>
OutsideAnomaly == <<now, Earlier, ragVars, serveVars, errVars, alertVars>>
OutsideRag == <<now, Earlier, anomalyVars, serveVars, errVars, alertVars>>
OutsideErr == <<now, Earlier, anomalyVars, ragVars, serveVars, alertVars>>
OutsideAlert == <<Earlier, anomalyVars, ragVars, serveVars, errVars>>
OutsideServe == <<now, Earlier, anomalyVars, errVars, alertVars>>

\* self.last_failure_time = None
None == -1

\* a file that is present and cannot be read back (faiss.read_index or
\* pickle.load raises), custom_rag.py:142-145
Unreadable == -2

\* the identities that send messages
Users == {"u1", "u2"}

\* the lengths recorded by the AnomalyDetector, and those asked of it
\* (tests/test_monitoring.py:119-123, and 55)
Recorded == {50, 55}
Lengths == {50, 55, 500}

\* the error_type arguments of AlertManager.handle_error
ErrorTypes == {"e1", "e2"}
\* the keys last_alerts can have: those and the type check_error_rate alerts
\* with (monitoring.py:308)
AlertTypes == ErrorTypes \cup {"HIGH_ERROR_RATE"}

\* request threads that call check_rate_limit on the shared RateLimiter
Threads == {"t1", "t2"}

\* The two tiers of RateLimiter.check_rate_limit: the code's 10 messages per
\* 60 s and 100 messages per 3600 s, scaled down to clock units and limits that
\* keep the same order (LimitPerMin < LimitPerHour, MinuteWindow < HourWindow,
\* and the long tier can fill while the short tier never does).
LimitPerMin == 3
MinuteWindow == 2
LimitPerHour == 5
HourWindow == 6

\* ------------------------------------------------------- CircuitBreaker
\* security.py:254  time.time() - self.last_failure_time > self.timeout
\* (variant: the boundary counted as elapsed)
TimeoutElapsed_Geq(t, lft, to) == t - lft >= to
TimeoutElapsed(t, lft, to) == t - lft > to

\* security.py:252-257: the state the call proceeds in, or "rejected"
\* (variant: an open breaker never tries again)
EnterState_NeverProbe(st, t, lft, to) == IF st = "open" THEN "rejected" ELSE st
EnterState(st, t, lft, to) ==
    IF st = "open"
    THEN IF TimeoutElapsed(t, lft, to) THEN "half_open" ELSE "rejected"
    ELSE st

\* security.py:276  self.failure_count >= self.failure_threshold
\* (variant: opens one failure late)
ThresholdReached_Gt(fc, th) == fc > th
ThresholdReached(fc, th) == fc >= th

\* security.py:264-266: state and failure_count after the operation returned
\* (variant: a success in half_open does not close)
StateAfterSuccess_Keep(st) == st
StateAfterSuccess(st) == IF st = "half_open" THEN "closed" ELSE st

\* (variant: a success in half_open closes without resetting the count)
CountAfterSuccess_Keep(st, fc) == fc
\* (variant: every success resets the count)
CountAfterSuccess_Reset(st, fc) == 0
CountAfterSuccess(st, fc) == IF st = "half_open" THEN 0 ELSE fc

\* security.py:272-277: state after the operation raised
StateAfterFailure(st, fc, th) == IF ThresholdReached(fc, th) THEN "open" ELSE st

\* security.py:273  self.last_failure_time = time.time()
\* (variant: only the first failure sets the time)
FailureTime_Keep(lft, t) == IF lft = None THEN t ELSE lft
FailureTime(lft, t) == t

\* security.py:256-257: the rejection raises at once; last_failure_time is
\* left as it is
\* (variant: a rejected call restarts the timeout)
FailureTimeOnReject_Restart(lft, t) == t
FailureTimeOnReject(lft, t) == lft

\* CircuitBreaker.call(func): ok says whether func returns or raises, d is the
\* time func takes.
CBReject ==
    /\ EnterState(state, now, last_failure_time, timeout) = "rejected"
    /\ cb_invoked' = FALSE
    /\ cb_outcome' = "raised_open"
    /\ last_failure_time' = FailureTimeOnReject(last_failure_time, now)
    /\ UNCHANGED <<now, failure_threshold, timeout, failure_count, state>>
    /\ UNCHANGED OutsideCB

CBSuccess(d) ==
    LET st == EnterState(state, now, last_failure_time, timeout) IN
    /\ st # "rejected"
    /\ now + d <= MaxTime
    /\ now' = now + d
    /\ state' = StateAfterSuccess(st)
    /\ failure_count' = CountAfterSuccess(st, failure_count)
    /\ cb_invoked' = TRUE
    /\ cb_outcome' = "returned"
    /\ UNCHANGED <<failure_threshold, timeout, last_failure_time>>
    /\ UNCHANGED OutsideCB

CBFailure(d) ==
    LET st == EnterState(state, now, last_failure_time, timeout) IN
    /\ st # "rejected"
    /\ now + d <= MaxTime
    /\ failure_count < MaxFailures
    /\ now' = now + d
    /\ failure_count' = failure_count + 1
    /\ last_failure_time' = FailureTime(last_failure_time, now + d)
    /\ state' = StateAfterFailure(st, failure_count + 1, failure_threshold)
    /\ cb_invoked' = TRUE
    /\ cb_outcome' = "raised_func"
    /\ UNCHANGED <<failure_threshold, timeout>>
    /\ UNCHANGED OutsideCB

CBCall ==
    \/ CBReject
    \/ \E d \in 0..MaxFuncTime : CBSuccess(d)
    \/ \E d \in 0..MaxFuncTime : CBFailure(d)

\* the clock advances between calls
Tick ==
    /\ now < MaxTime
    /\ now' = now + 1
    /\ UNCHANGED <<cbVars, rlVars, thVars, retryVars, botVars, metricVars, chunkVars,
                   laterVars>>

\* CircuitBreaker.__init__(failure_threshold, timeout)
CBNew(th, to) ==
    /\ failure_threshold = th
    /\ timeout = to
    /\ failure_count = 0
    /\ last_failure_time = None
    /\ state = "closed"
    /\ cb_invoked = FALSE
    /\ cb_outcome = "none"

\* RateLimiter.__init__()
RLNew ==
    /\ user_messages = [u \in Users |-> <<>>]
    /\ rl_user = "none"
    /\ rl_result = TRUE
    /\ accepted = [u \in Users |-> <<>>]

\* retry_with_backoff(func, mr, bd) is entered: error_handling.py:37-39
RetryEntered(mr, bd) ==
    /\ max_retries = mr
    /\ base_delay = bd
    /\ attempt = 0
    /\ last_exception = None
    /\ r_pc = "call"
    /\ r_raised = None
    /\ calls = <<>>
    /\ sleeps = <<>>

\* signal_bot_rag.py:58-60 and MetricsCollector.__init__; no message taken yet
BotNew ==
    /\ activated_users = {}
    /\ user_conversations = [u \in Users |-> <<>>]
    /\ b_pc = "idle"
    /\ cur = [id |-> 0, sender |-> "none", kind |-> "none"]
    /\ msg_count = 0
    /\ stages = <<>>
    /\ reply = "none"
    /\ gen_entry = "none"
    /\ gen_attempts = 0
    /\ denied = {}
    /\ searched = {}
    /\ generated = {}
    /\ message_count = 0
    /\ success_count = 0
    /\ error_count = 0

\* AnomalyDetector.__init__: no length recorded, nothing asked
AnomalyNew ==
    /\ message_lengths = [l \in Recorded |-> 0]
    /\ an_asked = FALSE
    /\ an_length = 0
    /\ an_result = FALSE

\* no search is running
ServeIdle ==
    /\ srv_pc = "idle"
    /\ srv_labels = <<>>
    /\ srv_seen = <<None, None>>

\* CustomRAG.__init__ (custom_rag.py:28-33), no file of the index present
RagNew ==
    /\ rag_pc = "new"
    /\ rag_chunks = 0
    /\ all_embeddings = 0
    /\ rag_embeddings = None
    /\ rag_index = None
    /\ s_k = 0
    /\ s_results = <<>>
    /\ s_outcome = "none"
    /\ ServeIdle

NoFiles == file_index = None /\ file_meta = None

\* no exception is being handled
ErrIdle ==
    /\ e_type = "none"
    /\ e_phrases = {}
    /\ e_category = "none"
    /\ e_action = "none"

\* AlertManager.__init__(error_rate_threshold=th, cooldown_seconds=cd), the
\* threshold in percent
AlertNew(th, cd) ==
    /\ error_rate_threshold = th
    /\ cooldown_seconds = cd
    /\ last_alerts = [ty \in AlertTypes |-> None]
    /\ sent = <<>>
    /\ al_call = [type |-> "none", time |-> 0, sent |-> FALSE]
    /\ rate_call = None

\* the later components as constructed and unused
LaterIdle == AnomalyNew /\ RagNew /\ NoFiles /\ ErrIdle /\ AlertNew(10, 300)

\* chunk_text is not being called
ChunkIdle ==
    /\ text = <<>>
    /\ chunk_size = 1
    /\ overlap = 0
    /\ start = 0
    /\ chunks = <<>>
    /\ c_pc = "idle"

\* no request thread is inside check_rate_limit
ThreadsIdle ==
    /\ t_pc = [th \in Threads |-> "idle"]
    /\ t_user = [th \in Threads |-> "none"]
    /\ t_now = [th \in Threads |-> 0]
    /\ t_free = [th \in Threads |-> 0]
    /\ t_ok = [th \in Threads |-> FALSE]

InitCB ==
    /\ now = 0
    /\ \E th \in 0..MaxThreshold, to \in 0..MaxTimeout : CBNew(th, to)
    /\ RLNew
    /\ ThreadsIdle
    /\ BotNew
    /\ ChunkIdle
    /\ LaterIdle
    /\ RetryEntered(3, 1)

NextCB == CBCall \/ Tick

SpecCB == InitCB /\ [][NextCB]_vars

\* ------------------------------------------------- CircuitBreaker properties
Open == state = "open"
Elapsed == now - last_failure_time > timeout

\* C1: a call made while the breaker is Open and the timeout has not elapsed
\* since last_failure_time raises the circuit-open error and does not invoke
\* the wrapped operation.
C1_OpenRejects ==
    [][(Open /\ ~Elapsed /\ CBCall)
         => (cb_outcome' = "raised_open" /\ cb_invoked' = FALSE)]_vars

C1_Witness ==
    /\ Open /\ ~Elapsed
    /\ cb_outcome = "raised_open" /\ cb_invoked = FALSE

\* C2: with failure_threshold N >= 1, a Closed breaker has failure_count < N; a
\* failing call in Closed adds one to failure_count, leaves the breaker Closed
\* while the new count is below N and opens it exactly when the count becomes N.
C2_OpensAtThreshold ==
    /\ []((failure_threshold >= 1 /\ state = "closed")
            => failure_count < failure_threshold)
    /\ [][(failure_threshold >= 1 /\ state = "closed"
             /\ \E d \in 0..MaxFuncTime : CBFailure(d))
          => /\ failure_count' = failure_count + 1
             /\ (failure_count' < failure_threshold => state' = "closed")
             /\ (failure_count' = failure_threshold => state' = "open")
             /\ state' \in {"closed", "open"}]_vars

C2_Witness ==
    /\ failure_threshold = 3 /\ failure_count = 3
    /\ Open /\ cb_outcome = "raised_func"

\* C3: when the breaker is Open and the timeout has elapsed, the next call
\* invokes the wrapped operation; if the operation succeeds the call returns
\* and the breaker ends Closed with failure_count = 0.
C3_HalfOpenSuccessCloses ==
    /\ [][(Open /\ Elapsed /\ CBCall)
            => (cb_invoked' = TRUE /\ cb_outcome' \in {"returned", "raised_func"})]_vars
    /\ [][(Open /\ Elapsed /\ \E d \in 0..MaxFuncTime : CBSuccess(d))
            => (cb_outcome' = "returned" /\ state' = "closed"
                /\ failure_count' = 0)]_vars

C3_Witness ==
    /\ failure_threshold >= 1 /\ last_failure_time # None
    /\ state = "closed" /\ failure_count = 0
    /\ cb_outcome = "returned" /\ cb_invoked = TRUE

\* C4: a failing call made in HalfOpen puts the breaker back to Open, re-raises
\* the operation's exception and restarts the timeout from that failure; a call
\* that immediately follows a failure that left the breaker Open is rejected
\* without invoking the operation.
C4_HalfOpenFailureReopens ==
    /\ [][(Open /\ Elapsed /\ \E d \in 0..MaxFuncTime : CBFailure(d))
            => /\ state' = "open"
               /\ cb_outcome' = "raised_func"
               /\ last_failure_time' = now']_vars
    /\ [][(Open /\ cb_outcome = "raised_func" /\ last_failure_time = now /\ CBCall)
            => (cb_outcome' = "raised_open" /\ cb_invoked' = FALSE
                /\ state' = "open")]_vars

C4_Witness ==
    /\ failure_threshold >= 1 /\ failure_count > failure_threshold
    /\ Open /\ cb_outcome = "raised_func" /\ last_failure_time = now

\* ------------------------------------------------------------ RateLimiter
\* security.py:75  messages = self.user_messages[user_id]
\* (variant: one deque for all identities)
Messages_Shared(um, user_id) == um["u1"]
Messages(um, user_id) == um[user_id]

\* security.py:78-79  while messages and messages[0] < window_1hour: popleft()
RECURSIVE PopOld(_, _)
PopOld(messages, window_1hour) ==
    IF messages # <<>> /\ Head(messages) < window_1hour
    THEN PopOld(Tail(messages), window_1hour)
    ELSE messages

\* security.py:82  sum(1 for ts in messages if ts > window_1min)
Recent1Min(messages, window_1min) ==
    Cardinality({i \in DOMAIN messages : messages[i] > window_1min})

\* security.py:86  if recent_1min >= 10: return False
\* (variant: one message too many per short window)
MinuteLimitReached_Gt(recent_1min) == recent_1min > LimitPerMin
MinuteLimitReached(recent_1min) == recent_1min >= LimitPerMin

\* security.py:88  if recent_1hour >= 100: return False
\* (variant: no long tier)
HourLimitReached_Never(recent_1hour) == FALSE
HourLimitReached(recent_1hour) == recent_1hour >= LimitPerHour

\* security.py:81-93: the return value, for the pruned deque
WithinLimits(pruned, t) ==
    /\ ~MinuteLimitReached(Recent1Min(pruned, t - MinuteWindow))
    /\ ~HourLimitReached(Len(pruned))

\* security.py:70-93: the return value of check_rate_limit at time t
Allowed(messages, t) == WithinLimits(PopOld(messages, t - HourWindow), t)

\* security.py:77-93: the deque after check_rate_limit at time t
\* (variant: rejected calls are recorded too)
MessagesAfter_Always(messages, t) == Append(PopOld(messages, t - HourWindow), t)
MessagesAfter(messages, t) ==
    LET pruned == PopOld(messages, t - HourWindow) IN
    IF WithinLimits(pruned, t) THEN Append(pruned, t) ELSE pruned

\* RateLimiter.check_rate_limit(user_id), called from the serial message loop
CheckRateLimit(user_id) ==
    LET messages == Messages(user_messages, user_id)
        ok == Allowed(messages, now)
    IN  /\ user_messages' =
               [user_messages EXCEPT ![user_id] = MessagesAfter(messages, now)]
        /\ rl_user' = user_id
        /\ rl_result' = ok
        /\ accepted' = IF ok THEN [accepted EXCEPT ![user_id] = Append(@, now)]
                             ELSE accepted
        /\ UNCHANGED now
        /\ UNCHANGED OutsideRL

InitRL ==
    /\ now = 0
    /\ CBNew(5, 60)
    /\ RLNew
    /\ ThreadsIdle
    /\ BotNew
    /\ ChunkIdle
    /\ LaterIdle
    /\ RetryEntered(3, 1)

\* one identity sends messages
NextRL == CheckRateLimit("u1") \/ Tick

SpecRL == InitRL /\ [][NextRL]_vars

\* all identities send messages
PairTick ==
    /\ now < MaxPairTime
    /\ Tick

NextRLPair == (\E u \in Users : CheckRateLimit(u)) \/ PairTick

SpecRLPair == InitRL /\ [][NextRLPair]_vars

\* ---------------------------------------------------- RateLimiter properties
\* the number of entries of log in the window (lo, hi]
CountIn(log, lo, hi) ==
    Cardinality({i \in DOMAIN log : lo < log[i] /\ log[i] <= hi})

\* the entries of messages that are not older than the long window at time t
NotOlderThanHour(messages, t) ==
    SelectSeq(messages, LAMBDA ts : ts >= t - HourWindow)

\* C5: for a fresh identity the first LimitPerMin calls return True; a further
\* call less than MinuteWindow after the first of them returns False; a call
\* more than MinuteWindow after the last of them returns True.
C5_ShortWindow ==
    [][\A u \in Users : CheckRateLimit(u) =>
         LET log == accepted[u] IN
         /\ (Len(log) < LimitPerMin => rl_result' = TRUE)
         /\ (Len(log) = LimitPerMin /\ now - log[1] < MinuteWindow
               => rl_result' = FALSE)
         /\ (Len(log) = LimitPerMin /\ now - log[LimitPerMin] > MinuteWindow
               => rl_result' = TRUE)]_vars

C5_Witness ==
    LET log == accepted["u1"] IN
    /\ rl_user = "u1" /\ rl_result = TRUE
    /\ Len(log) = LimitPerMin + 1
    /\ log[LimitPerMin] - log[1] < MinuteWindow
    /\ log[LimitPerMin + 1] = now
    /\ now - log[LimitPerMin] > MinuteWindow

\* C6: for every identity and every time t so far, at most LimitPerMin calls
\* were accepted in (t - MinuteWindow, t] and at most LimitPerHour in
\* [t - HourWindow, t]; a call made when LimitPerHour calls were accepted in
\* [now - HourWindow, now] is rejected.
C6_WindowBounds ==
    /\ [](\A u \in Users : \A t \in 0..now :
            /\ CountIn(accepted[u], t - MinuteWindow, t) <= LimitPerMin
            /\ CountIn(accepted[u], t - HourWindow - 1, t) <= LimitPerHour)
    /\ [][\A u \in Users :
            (CheckRateLimit(u)
               /\ CountIn(accepted[u], now - HourWindow - 1, now) >= LimitPerHour)
            => rl_result' = FALSE]_vars

C6_Witness ==
    LET log == accepted["u1"] IN
    /\ rl_user = "u1" /\ rl_result = FALSE
    /\ CountIn(log, now - HourWindow - 1, now) = LimitPerHour
    /\ \A t \in 0..now : CountIn(log, t - MinuteWindow, t) < LimitPerMin

\* C7: a rejected call records no timestamp: the identity's deque is the old
\* one without the entries older than the long window, no call is added to the
\* accepted ones, and at every later time the identity is accepted exactly
\* when it would have been without the rejected call.
C7_RejectRecordsNothing ==
    [][\A u \in Users : (CheckRateLimit(u) /\ rl_result' = FALSE) =>
         /\ user_messages'[u] = NotOlderThanHour(user_messages[u], now)
         /\ accepted' = accepted
         /\ \A t \in now..MaxTime :
              Allowed(user_messages'[u], t) = Allowed(user_messages[u], t)]_vars

C7_Witness ==
    LET messages == user_messages["u1"] IN
    /\ rl_user = "u1" /\ rl_result = FALSE
    /\ messages # <<>>
    /\ messages[Len(messages)] < now

\* C9: check_rate_limit(a) leaves the deque and the accepted calls of every
\* other identity b unchanged, and with them b's outcome at every later time;
\* a call of a is rejected only when a's own accepted calls fill a window.
C9_PerIdentity ==
    [][\A a \in Users : CheckRateLimit(a) =>
         /\ \A b \in Users \ {a} :
              /\ user_messages'[b] = user_messages[b]
              /\ accepted'[b] = accepted[b]
              /\ \A t \in now..MaxTime :
                   Allowed(user_messages'[b], t) = Allowed(user_messages[b], t)
         /\ rl_result' = FALSE =>
              \/ CountIn(accepted[a], now - MinuteWindow, now) >= LimitPerMin
              \/ CountIn(accepted[a], now - HourWindow - 1, now) >= LimitPerHour]_vars

C9_Witness ==
    /\ CountIn(accepted["u1"], now - MinuteWindow, now) >= LimitPerMin
    /\ rl_user = "u2" /\ rl_result = TRUE
    /\ accepted["u2"] = <<now>>

\* ------------------------------------- RateLimiter called from two threads
\* check_rate_limit takes no lock: a thread switch can fall between any two of
\* its statements.  The steps are lines 70-79 (read the clock, prune), lines
\* 81-89 (count and compare) and lines 92-93 (record).

\* slots left to an identity: the smaller of what the two tiers leave
SlotsLeft(pruned, t) ==
    LET m == LimitPerMin - Recent1Min(pruned, t - MinuteWindow)
        h == LimitPerHour - Len(pruned)
        least == IF m < h THEN m ELSE h
    IN  IF least < 0 THEN 0 ELSE least

\* security.py:70-79
ThEnter(th, user_id) ==
    LET pruned == PopOld(Messages(user_messages, user_id), now - HourWindow) IN
    /\ t_pc[th] = "idle"
    /\ t_pc' = [t_pc EXCEPT ![th] = "count"]
    /\ t_user' = [t_user EXCEPT ![th] = user_id]
    /\ t_now' = [t_now EXCEPT ![th] = now]
    /\ t_free' = [t_free EXCEPT ![th] = SlotsLeft(pruned, now)]
    /\ user_messages' = [user_messages EXCEPT ![user_id] = pruned]
    /\ UNCHANGED <<now, t_ok, accepted>>
    /\ UNCHANGED OutsideTh

\* security.py:81-89
ThCount(th) ==
    LET ok == WithinLimits(Messages(user_messages, t_user[th]), t_now[th]) IN
    /\ t_pc[th] = "count"
    /\ t_pc' = [t_pc EXCEPT ![th] = IF ok THEN "record" ELSE "done"]
    /\ t_ok' = [t_ok EXCEPT ![th] = FALSE]
    /\ UNCHANGED <<now, t_user, t_now, t_free, user_messages, accepted>>
    /\ UNCHANGED OutsideTh

\* security.py:91-93
ThRecord(th) ==
    /\ t_pc[th] = "record"
    /\ t_pc' = [t_pc EXCEPT ![th] = "done"]
    /\ t_ok' = [t_ok EXCEPT ![th] = TRUE]
    /\ user_messages' = [user_messages EXCEPT
                           ![t_user[th]] = Append(@, t_now[th])]
    /\ accepted' = [accepted EXCEPT ![t_user[th]] = Append(@, t_now[th])]
    /\ UNCHANGED <<now, t_user, t_now, t_free>>
    /\ UNCHANGED OutsideTh

\* the caller has the return value; the thread takes its next request
ThReturn(th) ==
    /\ t_pc[th] = "done"
    /\ t_pc' = [t_pc EXCEPT ![th] = "idle"]
    /\ UNCHANGED <<now, t_user, t_now, t_free, t_ok, user_messages, accepted>>
    /\ UNCHANGED OutsideTh

ThTick ==
    /\ now < MaxThreadTime
    /\ Tick

InitThreads == InitRL

NextThreads ==
    \/ \E th \in Threads, u \in Users : ThEnter(th, u)
    \/ \E th \in Threads : ThCount(th)
    \/ \E th \in Threads : ThRecord(th)
    \/ \E th \in Threads : ThReturn(th)
    \/ ThTick

SpecThreads == InitThreads /\ [][NextThreads]_vars

\* C8: two requests of one identity that run check_rate_limit concurrently (they
\* read the same clock value and each entered with exactly one slot left) are
\* never both accepted.
C8_OneSlotOneAccept ==
    \A t1 \in Threads : \A t2 \in Threads \ {t1} :
        (/\ t_pc[t1] = "done" /\ t_pc[t2] = "done"
         /\ t_user[t1] = t_user[t2] /\ t_now[t1] = t_now[t2]
         /\ t_free[t1] = 1 /\ t_free[t2] = 1)
        => ~(t_ok[t1] /\ t_ok[t2])

\* ------------------------------------------------------ retry_with_backoff
\* error_handling.py:47  delay = base_delay * (2 ** attempt)
\* (variant: exponent off by one)
Delay_NextPower(bd, att) == bd * (2 ^ (att + 1))
Delay(bd, att) == bd * (2 ^ att)

\* error_handling.py:45  if attempt < max_retries
\* (variant: sleeps after the last attempt too)
AttemptsRemain_Leq(att, mr) == att <= mr
AttemptsRemain(att, mr) == att < mr

\* error_handling.py:42  except retry_exceptions
\* (variant: every exception is caught)
IsRetryable_All(outcome) == outcome # "ok"
IsRetryable(outcome) == outcome = "retryable"

\* error_handling.py:39  for attempt in range(max_retries + 1)
LoopContinues(att, mr) == att <= mr

\* error_handling.py:40-52: one pass of the try statement; outcome is what
\* func() does, an exception is named by the call that raised it
RetryInvoke(outcome) ==
    LET n == Len(calls) + 1 IN
    /\ r_pc = "call"
    /\ calls' = Append(calls, outcome)
    /\ CASE outcome = "ok" ->
              /\ r_pc' = "returned"
              /\ UNCHANGED <<last_exception, r_raised>>
         [] outcome # "ok" /\ IsRetryable(outcome) ->
              /\ last_exception' = n
              /\ IF AttemptsRemain(attempt, max_retries)
                 THEN r_pc' = "sleep" /\ UNCHANGED r_raised
                 ELSE r_pc' = "raised" /\ r_raised' = n
         [] outcome # "ok" /\ ~IsRetryable(outcome) ->
              /\ r_pc' = "raised"
              /\ r_raised' = n
              /\ UNCHANGED last_exception
    /\ UNCHANGED <<max_retries, base_delay, attempt, sleeps>>
    /\ UNCHANGED OutsideRetry

\* error_handling.py:47-49, then the next iteration of the for loop; when the
\* range is used up, lines 54-55 raise last_exception
RetrySleep ==
    /\ r_pc = "sleep"
    /\ sleeps' = Append(sleeps, Delay(base_delay, attempt))
    /\ attempt' = attempt + 1
    /\ IF LoopContinues(attempt + 1, max_retries)
       THEN r_pc' = "call" /\ UNCHANGED r_raised
       ELSE r_pc' = "raised" /\ r_raised' = last_exception
    /\ UNCHANGED <<max_retries, base_delay, last_exception, calls>>
    /\ UNCHANGED OutsideRetry

InitRetry ==
    /\ now = 0
    /\ CBNew(5, 60)
    /\ RLNew
    /\ ThreadsIdle
    /\ BotNew
    /\ ChunkIdle
    /\ LaterIdle
    /\ \E mr \in 0..MaxRetries, bd \in 1..MaxBaseDelay : RetryEntered(mr, bd)

NextRetry ==
    \/ \E outcome \in {"ok", "retryable", "other"} : RetryInvoke(outcome)
    \/ RetrySleep

SpecRetry == InitRetry /\ [][NextRetry]_vars

\* all calls of func so far raised a retryable exception
AllRetryable(cs) == \A i \in DOMAIN cs : cs[i] = "retryable"

\* C10: while func has raised only retryable exceptions, at most max_retries of
\* them, retry_with_backoff is still running; when func then succeeds after f
\* such failures, retry_with_backoff returns after f+1 calls and exactly f
\* sleeps of base_delay * 2^i, i = 0..f-1, in that order.
C10_SucceedsAfterFailures ==
    /\ (AllRetryable(calls) /\ Len(calls) <= max_retries)
         => r_pc \in {"call", "sleep"}
    /\ (calls # <<>> /\ calls[Len(calls)] = "ok") =>
         LET f == Len(calls) - 1 IN
         /\ r_pc = "returned" /\ r_raised = None
         /\ f <= max_retries
         /\ sleeps = [i \in 1..f |-> base_delay * (2 ^ (i - 1))]

C10_Witness ==
    /\ max_retries = 3 /\ base_delay = 1
    /\ r_pc = "returned"
    /\ calls = <<"retryable", "retryable", "ok">>
    /\ sleeps = <<1, 2>>

\* C11: when every call of func raises a retryable exception,
\* retry_with_backoff ends by raising the exception of the last call, after
\* exactly max_retries + 1 calls and exactly max_retries sleeps of
\* base_delay * 2^i, i = 0..max_retries-1: none after the last call.
C11_ExhaustionReraisesLast ==
    /\ (AllRetryable(calls) /\ Len(calls) = max_retries + 1) => r_pc = "raised"
    /\ (AllRetryable(calls) /\ r_pc = "raised") =>
         /\ Len(calls) = max_retries + 1
         /\ r_raised = Len(calls)
         /\ last_exception = r_raised
         /\ sleeps = [i \in 1..max_retries |-> base_delay * (2 ^ (i - 1))]

C11_Witness ==
    /\ max_retries = 3 /\ base_delay = 1
    /\ r_pc = "raised" /\ r_raised = 4
    /\ calls = <<"retryable", "retryable", "retryable", "retryable">>
    /\ sleeps = <<1, 2, 4>>

\* C12: an exception outside the retryable set leaves retry_with_backoff from
\* the call that raised it: no sleep follows that call, and func is not called
\* again.
C12_NonRetryablePropagates ==
    /\ []((calls # <<>> /\ calls[Len(calls)] = "other") =>
            /\ r_pc = "raised"
            /\ r_raised = Len(calls)
            /\ Len(sleeps) = Len(calls) - 1)
    /\ [][r_pc = "raised" => (calls' = calls /\ sleeps' = sleeps)]_vars

C12_Witness ==
    /\ max_retries = 3 /\ base_delay = 1
    /\ r_pc = "raised" /\ r_raised = 2
    /\ calls = <<"retryable", "other">>
    /\ sleeps = <<1>>

\* ---------------------------------------------------------------------------
\* The message loop: process_messages and get_rag_response
\* (signal_bot_rag.py:124-336).  One action per stage of the handling of one
\* message; the loop is serial, so b_pc is "idle" between messages.
\* ---------------------------------------------------------------------------

\* the senders whose messages receive_signal_messages returns (78-123);
\* AUTHORIZED_USERS is empty (38), so no sender is filtered out
Senders == {"u1"}

\* what a received text is to the loop: the activation passphrase, a command,
\* a text sanitize_message refuses, a text ThreatDetector flags, or a question
Kinds == {"passphrase", "reset", "help", "invalid", "suspicious", "question"}

\* the order of the stages in the code: check_rate_limit (278), the commands
\* (284-322), then inside get_rag_response sanitize_message (129), is_suspicious
\* (134), the history (140-147), rag.search (165), the breaker-guarded call
\* (193) and the answer (200-225, 327)
\* (variant: the threat check is made on the text as received, before
\* sanitize_message)
StageAfter_ThreatFirst(stage) ==
    CASE stage = "rate" -> "command"
      [] stage = "command" -> "threat"
      [] stage = "threat" -> "sanitize"
      [] stage = "sanitize" -> "history"
      [] stage = "history" -> "search"
      [] stage = "search" -> "generate"
      [] stage = "generate" -> "deliver"
      [] OTHER -> "idle"
StageAfter(stage) ==
    CASE stage = "rate" -> "command"
      [] stage = "command" -> "sanitize"
      [] stage = "sanitize" -> "threat"
      [] stage = "threat" -> "history"
      [] stage = "history" -> "search"
      [] stage = "search" -> "generate"
      [] stage = "generate" -> "deliver"
      [] OTHER -> "idle"

\* signal_bot_rag.py:278-281: where the loop goes after check_rate_limit
\* (variant: the continue after the notice is missing)
AfterRateCheck_NoContinue(ok) == StageAfter("rate")
AfterRateCheck(ok) == IF ok THEN StageAfter("rate") ELSE "idle"

\* signal_bot_rag.py:128-131: where get_rag_response goes after
\* sanitize_message
\* (variant: the ValueError is swallowed and the request goes on)
AfterSanitize_GoesOn(kind) == StageAfter("sanitize")
AfterSanitize(kind) == IF kind = "invalid" THEN "idle" ELSE StageAfter("sanitize")

\* signal_bot_rag.py:194-198: what get_rag_response does with an exception of
\* openai_circuit_breaker.call
\* (variant: the open circuit is not told apart from a failure)
ReplyOnBreakerError_Always(outcome) == "error"
\* (variant: without the handler of lines 227-229 the exception of the
\* operation leaves get_rag_response and nothing is sent)
ReplyOnBreakerError_Escapes(outcome) ==
    IF outcome = "raised_open" THEN "unavailable" ELSE "none"
ReplyOnBreakerError(outcome) ==
    IF outcome = "raised_open" THEN "unavailable" ELSE "error"

\* signal_bot_rag.py:181-193: call_openai is handed to the breaker as it is,
\* not wrapped in retry_with_backoff
\* (variant: the breaker guards the retried call)
GenerationRetried_Yes == TRUE
GenerationRetried == FALSE

\* calls of call_openai inside one breaker-guarded call that is let through
AttemptsOfCall(ok) == IF ok \/ ~GenerationRetried THEN 1 ELSE 1 + max_retries

\* signal_bot_rag.py:165: rag.search is called directly, not through
\* openai_circuit_breaker.call
\* (variant: the search is guarded by the breaker as well)
SearchThroughBreaker_Yes == TRUE
SearchThroughBreaker == FALSE

\* signal_bot_rag.py:272-275: a text that is not the passphrase goes on to the
\* rate limiter only if its sender is activated
\* (variant: the loop serves senders that are not activated)
AfterTake_Open(is_activated) == "rate"
AfterTake(is_activated) == IF is_activated THEN "rate" ELSE "idle"

\* the next message of receive_signal_messages (246-275): the passphrase
\* activates the sender, other texts of senders not activated are ignored
BotTakeUpTo(limit, sender, kind) ==
    /\ b_pc = "idle"
    /\ msg_count < limit
    /\ msg_count' = msg_count + 1
    /\ cur' = [id |-> msg_count + 1, sender |-> sender, kind |-> kind]
    /\ stages' = <<>>
    /\ gen_entry' = "none"
    /\ gen_attempts' = 0
    /\ IF kind = "passphrase"
         THEN /\ activated_users' = activated_users \cup {sender}
              /\ reply' = "welcome"
              /\ b_pc' = "idle"
         ELSE /\ UNCHANGED activated_users
              /\ reply' = "none"
              /\ b_pc' = AfterTake(sender \in activated_users)
    /\ UNCHANGED <<user_conversations, denied, searched, generated>>
    /\ UNCHANGED <<now, cbVars, rlVars>>
    /\ UNCHANGED OutsideBot

BotTake(sender, kind) == BotTakeUpTo(MaxMsgs, sender, kind)

\* signal_bot_rag.py:278-281
BotRateCheck ==
    LET messages == Messages(user_messages, cur.sender)
        ok == Allowed(messages, now)
    IN  /\ b_pc = "rate"
        /\ user_messages' =
               [user_messages EXCEPT ![cur.sender] = MessagesAfter(messages, now)]
        /\ rl_user' = cur.sender
        /\ rl_result' = ok
        /\ accepted' = IF ok THEN [accepted EXCEPT ![cur.sender] = Append(@, now)]
                             ELSE accepted
        /\ stages' = Append(stages, "rate")
        /\ reply' = IF ok THEN reply ELSE "rate_notice"
        /\ denied' = IF ok THEN denied ELSE denied \cup {cur.id}
        /\ b_pc' = AfterRateCheck(ok)
        /\ UNCHANGED <<activated_users, user_conversations, cur, msg_count,
                       gen_entry, gen_attempts, searched, generated>>
        /\ UNCHANGED <<now, cbVars>>
        /\ UNCHANGED OutsideBot

\* signal_bot_rag.py:284-322: /reset, /help and /info
BotCommand ==
    /\ b_pc = "command"
    /\ CASE cur.kind = "reset" ->
              /\ user_conversations' =
                     [user_conversations EXCEPT ![cur.sender] = <<>>]
              /\ reply' = "reset_done"
              /\ b_pc' = "idle"
         [] cur.kind = "help" ->
              /\ UNCHANGED user_conversations
              /\ reply' = "help_text"
              /\ b_pc' = "idle"
         [] OTHER ->
              /\ UNCHANGED <<user_conversations, reply>>
              /\ b_pc' = StageAfter("command")
    /\ UNCHANGED <<activated_users, cur, msg_count, stages, gen_entry,
                   gen_attempts, denied, searched, generated>>
    /\ UNCHANGED <<now, cbVars, rlVars>>
    /\ UNCHANGED OutsideBot

\* get_rag_response, signal_bot_rag.py:127-131: sanitize_message raises
\* ValueError and the text of the error is returned
BotSanitize ==
    /\ b_pc = "sanitize"
    /\ stages' = Append(stages, "sanitize")
    /\ reply' = IF cur.kind = "invalid" THEN "invalid_input" ELSE reply
    /\ b_pc' = AfterSanitize(cur.kind)
    /\ UNCHANGED <<activated_users, user_conversations, cur, msg_count,
                   gen_entry, gen_attempts, denied, searched, generated>>
    /\ UNCHANGED <<now, cbVars, rlVars>>
    /\ UNCHANGED OutsideBot

\* signal_bot_rag.py:133-137: threat_detector.is_suspicious
BotThreat ==
    /\ b_pc = "threat"
    /\ stages' = Append(stages, "threat")
    /\ IF cur.kind = "suspicious"
         THEN reply' = "threat_warning" /\ b_pc' = "idle"
         ELSE UNCHANGED reply /\ b_pc' = StageAfter("threat")
    /\ UNCHANGED <<activated_users, user_conversations, cur, msg_count,
                   gen_entry, gen_attempts, denied, searched, generated>>
    /\ UNCHANGED <<now, cbVars, rlVars>>
    /\ UNCHANGED OutsideBot

\* signal_bot_rag.py:139-147: the message is appended to the sender's history
BotHistory ==
    /\ b_pc = "history"
    /\ user_conversations' =
           [user_conversations EXCEPT ![cur.sender] = Append(@, <<"user", cur.id>>)]
    /\ b_pc' = StageAfter("history")
    /\ UNCHANGED <<activated_users, cur, msg_count, stages, reply, gen_entry,
                   gen_attempts, denied, searched, generated>>
    /\ UNCHANGED <<now, cbVars, rlVars>>
    /\ UNCHANGED OutsideBot

\* what openai_circuit_breaker.call(func) does to the breaker and the clock
\* (security.py:251-279); ok says whether func returns
BreakerCall(ok) ==
    LET st == EnterState(state, now, last_failure_time, timeout) IN
    IF st = "rejected"
      THEN /\ cb_invoked' = FALSE
           /\ cb_outcome' = "raised_open"
           /\ UNCHANGED <<now, failure_threshold, timeout, failure_count,
                          last_failure_time, state>>
      ELSE /\ cb_invoked' = TRUE
           /\ UNCHANGED <<now, failure_threshold, timeout>>
           /\ IF ok
                THEN /\ state' = StateAfterSuccess(st)
                     /\ failure_count' = CountAfterSuccess(st, failure_count)
                     /\ cb_outcome' = "returned"
                     /\ UNCHANGED last_failure_time
                ELSE /\ failure_count' = failure_count + 1
                     /\ last_failure_time' = FailureTime(last_failure_time, now)
                     /\ state' = StateAfterFailure(st, failure_count + 1,
                                                   failure_threshold)
                     /\ cb_outcome' = "raised_func"

\* how that call ends for its caller
BreakerOutcome(ok) ==
    IF EnterState(state, now, last_failure_time, timeout) = "rejected"
      THEN "raised_open"
      ELSE IF ok THEN "returned" ELSE "raised_func"

\* signal_bot_rag.py:164-175: rag.search; an exception reaches the handler of
\* lines 227-229 and its text is the reply
BotSearch(ok) ==
    LET outcome == IF SearchThroughBreaker THEN BreakerOutcome(ok)
                   ELSE IF ok THEN "returned" ELSE "raised_func"
    IN  /\ b_pc = "search"
        /\ stages' = Append(stages, "search")
        /\ searched' = IF outcome = "raised_open" THEN searched
                       ELSE searched \cup {cur.id}
        /\ IF SearchThroughBreaker THEN BreakerCall(ok)
                                   ELSE UNCHANGED <<now, cbVars>>
        /\ IF outcome = "returned"
             THEN UNCHANGED reply /\ b_pc' = StageAfter("search")
             ELSE reply' = "error" /\ b_pc' = "idle"
        /\ UNCHANGED <<activated_users, user_conversations, cur, msg_count,
                       gen_entry, gen_attempts, denied, generated>>
        /\ UNCHANGED rlVars
        /\ UNCHANGED OutsideBot

\* signal_bot_rag.py:177-198: openai_circuit_breaker.call(call_openai); the
\* open circuit gives the fixed text, any other exception reaches the handler
\* of lines 227-229
BotGenerate(ok) ==
    LET st == EnterState(state, now, last_failure_time, timeout)
        outcome == BreakerOutcome(ok)
    IN  /\ b_pc = "generate"
        /\ stages' = Append(stages, "generate")
        /\ gen_entry' = st
        /\ gen_attempts' = IF st = "rejected" THEN 0 ELSE AttemptsOfCall(ok)
        /\ generated' = IF st = "rejected" THEN generated
                        ELSE generated \cup {cur.id}
        /\ BreakerCall(ok)
        /\ IF outcome = "returned"
             THEN UNCHANGED reply /\ b_pc' = StageAfter("generate")
             ELSE reply' = ReplyOnBreakerError(outcome) /\ b_pc' = "idle"
        /\ UNCHANGED <<activated_users, user_conversations, cur, msg_count,
                       denied, searched>>
        /\ UNCHANGED rlVars
        /\ UNCHANGED OutsideBot

\* signal_bot_rag.py:200-225 and 327: the answer joins the history and is sent
BotDeliver ==
    /\ b_pc = "deliver"
    /\ stages' = Append(stages, "deliver")
    /\ user_conversations' =
           [user_conversations EXCEPT ![cur.sender] = Append(@, <<"assistant", cur.id>>)]
    /\ reply' = "answer"
    /\ b_pc' = "idle"
    /\ UNCHANGED <<activated_users, cur, msg_count, gen_entry, gen_attempts,
                   denied, searched, generated>>
    /\ UNCHANGED <<now, cbVars, rlVars>>
    /\ UNCHANGED OutsideBot

\* the clock advances while the loop runs, between any two of its steps
BotTick == now < MaxBotTime /\ Tick

\* signal_bot_rag.py:47-60: the module-level objects of the bot
InitBot ==
    /\ now = 0
    /\ CBNew(BotThreshold, BotTimeout)
    /\ RLNew
    /\ ThreadsIdle
    /\ BotNew
    /\ ChunkIdle
    /\ LaterIdle
    /\ RetryEntered(3, 1)

NextBot ==
    \/ \E u \in Senders, k \in Kinds : BotTake(u, k)
    \/ BotRateCheck
    \/ BotCommand
    \/ BotSanitize
    \/ BotThreat
    \/ BotHistory
    \/ \E ok \in BOOLEAN : BotSearch(ok)
    \/ \E ok \in BOOLEAN : BotGenerate(ok)
    \/ BotDeliver
    \/ BotTick

SpecBot == InitBot /\ [][NextBot]_vars

\* The loop under a flood of questions: the sender activates the bot and then
\* sends questions only, more of them than the short window admits.
FloodKinds == {"passphrase", "question"}

FloodTake(sender, kind) == BotTakeUpTo(MaxFloodMsgs, sender, kind)

NextBotFlood ==
    \/ \E u \in Senders, k \in FloodKinds : FloodTake(u, k)
    \/ BotRateCheck
    \/ BotCommand
    \/ BotSanitize
    \/ BotThreat
    \/ BotHistory
    \/ \E ok \in BOOLEAN : BotSearch(ok)
    \/ \E ok \in BOOLEAN : BotGenerate(ok)
    \/ BotDeliver
    \/ BotTick

SpecBotFlood == InitBot /\ [][NextBotFlood]_vars

\* ---------------------------------------------------------------------------
\* Claims about the message loop
\* ---------------------------------------------------------------------------

IsPrefix(p, q) == Len(p) <= Len(q) /\ \A i \in 1..Len(p) : p[i] = q[i]

StagesOf(sq) == {sq[i] : i \in 1..Len(sq)}

\* the request was refused by sanitize_message or by the ThreatDetector
RejectedByScreen == reply \in {"invalid_input", "threat_warning"}

\* C13 as stated: the order of the stages is sanitize, threat check, rate-limit
\* check, retrieval, generation, delivery, and a request rejected by sanitize or
\* by the threat check was never presented to the rate limiter.
C13_SanitizeThreatThenRate ==
    /\ IsPrefix(stages, <<"sanitize", "threat", "rate", "search", "generate",
                          "deliver">>)
    /\ RejectedByScreen => "rate" \notin StagesOf(stages)

\* C13 amended: the order of the stages is rate-limit check, sanitize, threat
\* check, retrieval, generation, delivery; a request rejected by sanitize or by
\* the threat check has been presented to the rate limiter before, and was
\* accepted by it.
C13_RateThenSanitizeThreat ==
    /\ IsPrefix(stages, <<"rate", "sanitize", "threat", "search", "generate",
                          "deliver">>)
    /\ RejectedByScreen =>
           /\ stages[1] = "rate"
           /\ cur.id \notin denied
           /\ rl_user = cur.sender /\ rl_result
           /\ accepted[cur.sender] # <<>>

\* a request refused by the threat check, and one that went through all stages
C13_Witness ==
    /\ reply = "threat_warning"
    /\ stages = <<"rate", "sanitize", "threat">>
    /\ \E u \in Users : \E i \in 1..Len(user_conversations[u]) :
           user_conversations[u][i][1] = "assistant"

\* the step of the loop that makes the breaker-guarded generation call
GenerateStep == b_pc = "generate" /\ b_pc' # "generate"

C15_OpenCircuitDegradedReply ==
    [][ GenerateStep /\ Open /\ ~Elapsed =>
          /\ reply' = "unavailable"
          /\ b_pc' = "idle"
          /\ gen_attempts' = 0 /\ cur.id \notin generated'
          /\ ~cb_invoked' /\ cb_outcome' = "raised_open"
          /\ user_conversations' = user_conversations
      ]_vars

\* a request was answered with the fixed text while the circuit stays Open
C15_Witness ==
    /\ reply = "unavailable" /\ b_pc = "idle"
    /\ stages = <<"rate", "sanitize", "threat", "search", "generate">>
    /\ Open /\ ~Elapsed
    /\ cur.id \in searched /\ cur.id \notin generated

\* the messages that have an entry in some conversation history
Remembered ==
    UNION {{user_conversations[u][i][2] : i \in 1..Len(user_conversations[u])} :
           u \in Users}

\* C16: a request rejected by sanitize or by the ThreatDetector ends there:
\* neither retrieval nor generation is invoked for it, and the sender's
\* conversation history and the circuit breaker are as they were when the
\* request arrived.
C16_RejectedTouchesNothing ==
    /\ [](RejectedByScreen =>
            /\ b_pc = "idle"
            /\ cur.id \notin searched \cup generated
            /\ cur.id \notin Remembered
            /\ StagesOf(stages) \subseteq {"rate", "sanitize", "threat"})
    /\ [][(b_pc \in {"rate", "command", "sanitize", "threat"}) =>
            (/\ state' = state /\ failure_count' = failure_count
             /\ last_failure_time' = last_failure_time
             /\ (cur.kind # "reset" => user_conversations' = user_conversations))]_vars

\* a rejected request of a sender who has a history, after a recorded failure
C16_Witness ==
    /\ reply = "invalid_input" /\ b_pc = "idle"
    /\ user_conversations[cur.sender] # <<>>
    /\ failure_count > 0

\* the step of the loop that consults the rate limiter
RateStep == b_pc = "rate" /\ b_pc' # "rate"

\* C17: a message denied by the rate limiter gets the rate-limit notice and is
\* dropped: it enters no conversation history, and neither in its own loop
\* iteration nor in a later one is retrieval or generation invoked for it.
C17_DeniedIsDropped ==
    /\ [](/\ denied \cap (searched \cup generated \cup Remembered) = {}
          /\ cur.id \in denied =>
                 (b_pc = "idle" /\ reply = "rate_notice" /\ stages = <<"rate">>))
    /\ [][(RateStep /\ ~rl_result') =>
            (/\ reply' = "rate_notice" /\ b_pc' = "idle"
             /\ denied' = denied \cup {cur.id}
             /\ user_conversations' = user_conversations)]_vars

\* after a denied message a later one was taken and answered
C17_Witness ==
    /\ denied # {}
    /\ cur.id \notin denied /\ reply = "answer"
    /\ \A i \in denied : i < cur.id

\* the step of the loop that calls rag.search
SearchStep == b_pc = "search" /\ b_pc' # "search"

\* C18: retrieval is not routed through the circuit breaker: a request's call
\* of rag.search, failing or not, leaves the breaker's state, failure_count and
\* last_failure_time as they were, and is made whatever the breaker's state.
C18_SearchLeavesBreaker ==
    [][SearchStep =>
         (/\ state' = state /\ failure_count' = failure_count
          /\ last_failure_time' = last_failure_time
          /\ cb_invoked' = cb_invoked /\ cb_outcome' = cb_outcome
          /\ cur.id \in searched'
          /\ reply' = "error" => b_pc' = "idle")]_vars

\* rag.search was called and failed while the circuit was Open
C18_Witness ==
    /\ reply = "error" /\ b_pc = "idle"
    /\ stages = <<"rate", "sanitize", "threat", "search">>
    /\ cur.id \in searched
    /\ Open /\ ~Elapsed /\ failure_count = failure_threshold

\* C19, its first half: every transition of the loop is recorded in the
\* MetricsCollector: each message received has been counted by record_message,
\* an answered request by record_success and a failed one by record_error.
C19_TransitionsRecorded ==
    /\ message_count = msg_count
    /\ reply = "answer" => success_count > 0
    /\ reply = "error" => error_count > 0

\* ---------------------------------------------------------------------------
\* CustomRAG.chunk_text (custom_rag.py:35-57)
\* ---------------------------------------------------------------------------

\* the characters of a text: a letter, the sentence terminator and the newline
Alphabet == {"a", ".", "\n"}

\* the characters str.strip() removes
Whitespace == {"\n"}

Texts == UNION {[1..n -> Alphabet] : n \in 0..MaxTextLen}

MaxOf(S) == CHOOSE x \in S : \A y \in S : y <= x
MinOf(S) == CHOOSE x \in S : \A y \in S : x <= y

\* Python's s[a:b]: a negative index counts from the end, and both indices
\* are clipped to 0..len(s)
SliceIndex(i, n) ==
    IF i < 0 THEN (IF n + i < 0 THEN 0 ELSE n + i)
    ELSE IF i > n THEN n ELSE i

Slice(s, a, b) ==
    LET lo == SliceIndex(a, Len(s))
        hi == SliceIndex(b, Len(s))
    IN  IF lo >= hi THEN <<>> ELSE SubSeq(s, lo + 1, hi)

\* Python's s.rfind(c): the highest 0-based index of c in s, or -1
RFind(s, c) ==
    LET at == {i \in 1..Len(s) : s[i] = c}
    IN  IF at = {} THEN -1 ELSE MaxOf(at) - 1

\* Python's s.strip()
Strip(s) ==
    LET keep == {i \in 1..Len(s) : s[i] \notin Whitespace}
    IN  IF keep = {} THEN <<>> ELSE SubSeq(s, MinOf(keep), MaxOf(keep))

\* custom_rag.py:42-43: the window cut at start
\* (variant: the window takes one character more)
Window_Long(t, st, cs) == Slice(t, st, st + cs + 1)
Window(t, st, cs) == Slice(t, st, st + cs)

\* custom_rag.py:47-49: the last sentence terminator or newline of the window
BreakPoint(chunk) ==
    LET last_period == RFind(chunk, ".")
        last_newline == RFind(chunk, "\n")
    IN  IF last_period >= last_newline THEN last_period ELSE last_newline

\* custom_rag.py:46, 50: the window ends before the text does and the break
\* lies past the middle of chunk_size  (break_point > chunk_size * 0.5)
BreakTaken(t, st, cs) ==
    /\ st + cs < Len(t)
    /\ 2 * BreakPoint(Window(t, st, cs)) > cs

\* custom_rag.py:42, 52: end after the iteration
EndOf(t, st, cs) ==
    IF BreakTaken(t, st, cs) THEN st + BreakPoint(Window(t, st, cs)) + 1
    ELSE st + cs

\* custom_rag.py:43, 51, 54: the chunk the iteration appends
ChunkOf(t, st, cs) ==
    LET chunk == Window(t, st, cs)
    IN  Strip(IF BreakTaken(t, st, cs) THEN Slice(chunk, 0, BreakPoint(chunk) + 1)
              ELSE chunk)

\* one iteration of the while loop (41-55)
ChunkStep ==
    /\ c_pc = "loop"
    /\ start < Len(text)
    /\ Len(chunks) < MaxChunks
    /\ chunks' = Append(chunks, ChunkOf(text, start, chunk_size))
    /\ start' = EndOf(text, start, chunk_size) - overlap
    /\ UNCHANGED <<text, chunk_size, overlap, c_pc>>
    /\ UNCHANGED OutsideChunk

\* the loop condition fails and chunks is returned (41, 57)
ChunkReturn ==
    /\ c_pc = "loop"
    /\ ~(start < Len(text))
    /\ c_pc' = "done"
    /\ UNCHANGED <<text, chunk_size, overlap, start, chunks>>
    /\ UNCHANGED OutsideChunk

\* chunk_text(text, chunk_size, overlap) has been entered (37-39) with
\* 0 <= overlap < chunk_size
InitChunk ==
    /\ now = 0
    /\ CBNew(5, 60)
    /\ RLNew
    /\ ThreadsIdle
    /\ BotNew
    /\ LaterIdle
    /\ RetryEntered(3, 1)
    /\ text \in Texts
    /\ chunk_size \in 1..MaxChunkSize
    /\ overlap \in 0..(chunk_size - 1)
    /\ start = 0
    /\ chunks = <<>>
    /\ c_pc = "loop"

NextChunk == ChunkStep \/ ChunkReturn

SpecChunk == InitChunk /\ [][NextChunk]_vars

\* C20: whenever 0 <= overlap < chunk_size, every iteration of chunk_text moves
\* the window start strictly forward, also when a sentence or newline break
\* has shortened the window, so the loop ends.
C20_StartStrictlyIncreases ==
    [][(c_pc = "loop" /\ chunks' # chunks) => start' > start]_vars

\* chunk_text entered with any overlap, also outside 0 <= overlap < chunk_size:
\* lines 35-39 check nothing
InitChunkAny ==
    /\ now = 0
    /\ CBNew(5, 60)
    /\ RLNew
    /\ ThreadsIdle
    /\ BotNew
    /\ LaterIdle
    /\ RetryEntered(3, 1)
    /\ text \in Texts
    /\ chunk_size \in 1..MaxChunkSize
    /\ overlap \in (-1)..(MaxChunkSize + 1)
    /\ start = 0
    /\ chunks = <<>>
    /\ c_pc = "loop"

SpecChunkAny == InitChunkAny /\ [][NextChunk]_vars

ValidOverlap == 0 <= overlap /\ overlap < chunk_size

\* C21: for a non-empty text no longer than chunk_size, and
\* 0 <= overlap < chunk_size, chunk_text returns exactly one chunk and that
\* chunk is the text, unmodified.
C21_ShortTextOneChunk ==
    (c_pc = "done" /\ text # <<>> /\ Len(text) <= chunk_size)
    => chunks = <<text>>

\* C22: with overlap >= chunk_size or overlap < 0 chunk_text fails with a
\* configuration error instead of iterating: no chunk is ever appended and
\* the call does not return a result.
C22_BadOverlapFails ==
    ~ValidOverlap => (chunks = <<>> /\ c_pc # "done")

\* C23: for every text and 0 <= overlap < chunk_size, each chunk that
\* chunk_text appends, and so each chunk it returns, is at most chunk_size long.
C23_ChunkLength ==
    \A i \in 1..Len(chunks) : Len(chunks[i]) <= chunk_size

\* a returned result with a full-length chunk and a break-shortened one
C23_Witness ==
    /\ c_pc = "done"
    /\ Len(text) > chunk_size
    /\ \E i \in 1..Len(chunks) : Len(chunks[i]) = chunk_size
    /\ \E i \in 1..Len(chunks) :
           /\ 0 < Len(chunks[i]) /\ Len(chunks[i]) < chunk_size
           /\ chunks[i][Len(chunks[i])] = "."

\* ---------------------------------------------------------------------------
\* AnomalyDetector.is_anomalous_length (monitoring.py:109-123)
\* ---------------------------------------------------------------------------

RECURSIVE SumOver(_, _)
SumOver(S, f) ==
    IF S = {} THEN 0
    ELSE LET x == CHOOSE y \in S : TRUE IN f[x] + SumOver(S \ {x}, f)

\* len, sum and sum of squares of the recorded lengths
SampleCount(ml) == SumOver(DOMAIN ml, ml)
SampleSum(ml) == SumOver(DOMAIN ml, [l \in DOMAIN ml |-> l * ml[l]])
SampleSquares(ml) == SumOver(DOMAIN ml, [l \in DOMAIN ml |-> l * l * ml[l]])

\* monitoring.py:119-123 in integers.  With n entries, sum S and sum of
\* squares Q:  mean = S/n,  stdev^2 = (n*Q - S^2) / (n*(n-1)),  and
\*   abs(length - mean) > k * stdev
\* is, both sides squared and multiplied by n^2,
\*   (n*length - S)^2 > k^2 * n * (n*Q - S^2) / (n-1)
Deviates(n, S, Q, length, k) ==
    LET a == n * length - S
    IN  a * a > (k * k * n * (n * Q - S * S)) \div (n - 1)

\* monitoring.py:114-123
IsAnomalousLength(ml, length, k) ==
    IF SampleCount(ml) < MinHistory THEN FALSE
    ELSE Deviates(SampleCount(ml), SampleSum(ml), SampleSquares(ml), length, k)

\* record_message_length(length), monitoring.py:109-111; the deque holds up to
\* 1000 entries, more than are recorded here, so none is dropped
RecordMessageLength(length) ==
    /\ SampleCount(message_lengths) < MaxSamples
    /\ message_lengths' = [message_lengths EXCEPT ![length] = @ + 1]
    /\ UNCHANGED <<an_asked, an_length, an_result>>
    /\ UNCHANGED OutsideAnomaly

\* is_anomalous_length(length) with the default threshold_std
AskAnomalousLength(length) ==
    /\ an_asked' = TRUE
    /\ an_length' = length
    /\ an_result' = IsAnomalousLength(message_lengths, length, ThresholdStd)
    /\ UNCHANGED message_lengths
    /\ UNCHANGED OutsideAnomaly

InitAnomaly ==
    /\ now = 0
    /\ CBNew(5, 60)
    /\ RLNew
    /\ ThreadsIdle
    /\ BotNew
    /\ ChunkIdle
    /\ LaterIdle
    /\ RetryEntered(3, 1)

NextAnomaly ==
    \/ \E l \in Recorded : RecordMessageLength(l)
    \/ \E l \in Lengths : AskAnomalousLength(l)

SpecAnomaly == InitAnomaly /\ [][NextAnomaly]_vars

\* the baseline of the claim: BaselineCount lengths, all BaselineLength
Baseline ==
    message_lengths = [l \in Recorded |->
                          IF l = BaselineLength THEN BaselineCount ELSE 0]

\* C24: after recording 100 message lengths of 50, is_anomalous_length(500) is
\* True and is_anomalous_length(55) is False at threshold_std = 3.
C24_BaselineJudgement ==
    (Baseline /\ an_asked) =>
        /\ an_length = 500 => an_result
        /\ an_length = 55 => ~an_result

\* ---------------------------------------------------------------------------
\* CustomRAG: build_rag_index, load_index and search (custom_rag.py:85-216)
\* A chunk is known by its position in self.chunks; a file by the number of
\* vectors or entries in it.
\* ---------------------------------------------------------------------------

MinOf2(a, b) == IF a <= b THEN a ELSE b

\* load_and_chunk_buckets (59-83): n chunks are appended to self.chunks
RagLoadAndChunk(n) ==
    /\ rag_pc = "new"
    /\ rag_chunks' = rag_chunks + n
    /\ rag_pc' = "chunked"
    /\ UNCHANGED <<all_embeddings, rag_embeddings, rag_index, file_index,
                   file_meta, s_k, s_results, s_outcome>>
    /\ UNCHANGED OutsideRag

\* custom_rag.py:99-102: the embedding call of a batch raises; nothing in
\* create_embeddings or build_rag_index catches it, so both are left and
\* self.embeddings is not assigned
\* (variant: the failure is caught and the build goes on with the embeddings
\* of the batches so far)
OnBatchFailure_KeepPartial(i) == [pc |-> "embedded", stored |-> i]
OnBatchFailure(i) == [pc |-> "failed", stored |-> None]

\* create_embeddings (85-108), one round of its loop: the embedding call of a
\* batch returns one vector per text, or raises.  all_embeddings keeps the
\* length the list had when the exception left the function.
RagEmbedBatch(ok) ==
    /\ rag_pc = "chunked"
    /\ all_embeddings < rag_chunks
    /\ IF ok
         THEN /\ all_embeddings' = MinOf2(all_embeddings + BatchSize, rag_chunks)
              /\ UNCHANGED <<rag_pc, rag_embeddings>>
         ELSE /\ rag_pc' = OnBatchFailure(all_embeddings).pc
              /\ rag_embeddings' = OnBatchFailure(all_embeddings).stored
              /\ UNCHANGED all_embeddings
    /\ UNCHANGED <<rag_chunks, rag_index, file_index, file_meta, s_k, s_results,
                   s_outcome>>
    /\ UNCHANGED OutsideRag

\* custom_rag.py:107: after the last batch the array is stored
RagEmbedDone ==
    /\ rag_pc = "chunked"
    /\ all_embeddings >= rag_chunks
    /\ rag_embeddings' = all_embeddings
    /\ rag_pc' = "embedded"
    /\ UNCHANGED <<rag_chunks, all_embeddings, rag_index, file_index,
                   file_meta, s_k, s_results, s_outcome>>
    /\ UNCHANGED OutsideRag

\* build_index (110-120); with no embedding the array has one axis and
\* self.embeddings.shape[1] raises IndexError
RagBuildIndex ==
    /\ rag_pc = "embedded"
    /\ IF rag_embeddings = 0
         THEN rag_pc' = "failed" /\ UNCHANGED rag_index
         ELSE rag_pc' = "built" /\ rag_index' = rag_embeddings
    /\ UNCHANGED <<rag_chunks, all_embeddings, rag_embeddings, file_index,
                   file_meta, s_k, s_results, s_outcome>>
    /\ UNCHANGED OutsideRag

\* save_index, custom_rag.py:127: faiss.write_index, or an I/O error
RagSaveIndex(ok) ==
    /\ rag_pc = "built"
    /\ IF ok THEN file_index' = rag_index /\ rag_pc' = "index_written"
             ELSE UNCHANGED file_index /\ rag_pc' = "failed"
    /\ UNCHANGED <<rag_chunks, all_embeddings, rag_embeddings, rag_index,
                   file_meta, s_k, s_results, s_outcome>>
    /\ UNCHANGED OutsideRag

\* save_index, custom_rag.py:130-131: open(..., 'wb') empties the file, then
\* pickle.dump writes it, or an I/O error leaves it unreadable
RagSaveMeta(ok) ==
    /\ rag_pc = "index_written"
    /\ IF ok THEN file_meta' = rag_chunks /\ rag_pc' = "saved"
             ELSE file_meta' = Unreadable /\ rag_pc' = "failed"
    /\ UNCHANGED <<rag_chunks, all_embeddings, rag_embeddings, rag_index,
                   file_index, s_k, s_results, s_outcome>>
    /\ UNCHANGED OutsideRag

\* load_index, custom_rag.py:139-142: the existence check and faiss.read_index
RagLoadIndexFile ==
    /\ rag_pc \in {"new", "loaded"}
    /\ IF file_index \in {None, Unreadable}
         THEN rag_pc' = "load_failed" /\ UNCHANGED rag_index
         ELSE rag_pc' = "loading" /\ rag_index' = file_index
    /\ UNCHANGED <<rag_chunks, all_embeddings, rag_embeddings, file_index,
                   file_meta, s_k, s_results, s_outcome>>
    /\ UNCHANGED OutsideRag

\* load_index, custom_rag.py:144-145: open and pickle.load
RagLoadMeta ==
    /\ rag_pc = "loading"
    /\ IF file_meta \in {None, Unreadable}
         THEN rag_pc' = "load_failed" /\ UNCHANGED rag_chunks
         ELSE rag_pc' = "loaded" /\ rag_chunks' = file_meta
    /\ UNCHANGED <<all_embeddings, rag_embeddings, rag_index, file_index,
                   file_meta, s_k, s_results, s_outcome>>
    /\ UNCHANGED OutsideRag

\* the process ends and a new one starts with a new CustomRAG; the files stay
RagRestart ==
    /\ rag_pc \in {"failed", "saved", "load_failed", "loaded"}
    /\ rag_pc' = "new"
    /\ rag_chunks' = 0
    /\ all_embeddings' = 0
    /\ rag_embeddings' = None
    /\ rag_index' = None
    /\ s_k' = 0
    /\ s_results' = <<>>
    /\ s_outcome' = "none"
    /\ UNCHANGED <<file_index, file_meta>>
    /\ UNCHANGED OutsideRag

\* the orders in which an index of ntotal vectors can rank its m nearest
NearestOrders(ntotal, m) ==
    {q \in [1..m -> 0..(ntotal - 1)] :
        \A i, j \in 1..m : i # j => q[i] # q[j]}

\* custom_rag.py:159, self.index.search(query_embedding, k) of IndexFlatL2: the
\* labels of the min(k, ntotal) nearest vectors, then -1 for each missing one
FaissLabels(order, k) ==
    [i \in 1..k |-> IF i <= Len(order) THEN order[i] ELSE -1]

\* Python's list[idx]: a negative idx counts from the end
PyPosition(len, idx) == IF idx < 0 THEN len + idx ELSE idx
PyInRange(len, idx) == 0 <= PyPosition(len, idx) /\ PyPosition(len, idx) < len

\* search(query, k) (149-169) on an instance with an index; order is the
\* ranking the index computes for the query
RagSearch(k, order) ==
    LET labels == FaissLabels(order, k)
        allIn == \A i \in 1..k : PyInRange(rag_chunks, labels[i])
    IN  /\ rag_pc \in {"built", "index_written", "saved", "loaded"}
        /\ order \in NearestOrders(rag_index, MinOf2(k, rag_index))
        /\ s_k' = k
        /\ IF allIn
             THEN /\ s_results' = [i \in 1..k |-> PyPosition(rag_chunks, labels[i])]
                  /\ s_outcome' = "returned"
             ELSE /\ s_results' = <<>>
                  /\ s_outcome' = "raised"
        /\ UNCHANGED <<rag_pc, rag_chunks, all_embeddings, rag_embeddings,
                       rag_index, file_index, file_meta>>
        /\ UNCHANGED OutsideRag

\* a new CustomRAG in a directory that may hold files of earlier runs
InitRag ==
    /\ now = 0
    /\ CBNew(5, 60)
    /\ RLNew
    /\ ThreadsIdle
    /\ BotNew
    /\ ChunkIdle
    /\ RetryEntered(3, 1)
    /\ AnomalyNew /\ ErrIdle /\ AlertNew(10, 300)
    /\ RagNew
    /\ file_index \in {None, Unreadable} \cup 0..MaxRagChunks
    /\ file_meta \in {None, Unreadable} \cup 0..MaxRagChunks

NextRag ==
    \/ \E n \in 0..MaxRagChunks : RagLoadAndChunk(n)
    \/ \E ok \in BOOLEAN : RagEmbedBatch(ok)
    \/ RagEmbedDone
    \/ RagBuildIndex
    \/ \E ok \in BOOLEAN : RagSaveIndex(ok)
    \/ \E ok \in BOOLEAN : RagSaveMeta(ok)
    \/ RagLoadIndexFile
    \/ RagLoadMeta
    \/ \E k \in 1..MaxK :
         \E order \in NearestOrders(rag_index, MinOf2(k, rag_index)) :
             RagSearch(k, order)
    \/ RagRestart

SpecRag == InitRag /\ [][NextRag]_vars

\* a search has just been made
SearchStep2 == <<s_k, s_results, s_outcome>>' # <<s_k, s_results, s_outcome>>

\* C25: on an index of ntotal vectors with ntotal metadata entries, a search
\* with k >= 1 returns exactly min(k, ntotal) results, each joined to the
\* metadata of a distinct indexed chunk, and does not raise when k > ntotal
\* (ntotal = 0 included).
C25_SearchReturnsMin ==
    [][(SearchStep2 /\ s_outcome' # "none" /\ rag_index = rag_chunks) =>
         (/\ s_outcome' = "returned"
          /\ Len(s_results') = MinOf2(s_k', rag_index)
          /\ \A i \in 1..Len(s_results') : s_results'[i] < rag_index
          /\ \A i, j \in 1..Len(s_results') :
                 i # j => s_results'[i] # s_results'[j])]_vars

\* C26: whenever load_index returns normally, index.ntotal equals the number
\* of loaded chunk-metadata entries (a missing file or a mismatch of the two
\* makes it fail).
C26_LoadedFilesAgree ==
    rag_pc = "loaded" => rag_index = rag_chunks

\* an embedding call has failed
BatchFails == rag_pc = "chunked" /\ all_embeddings < rag_chunks /\ rag_pc' # "chunked"

\* C27: if the embedding call of any batch fails, the whole build aborts: no
\* embeddings are stored on the instance, no index is built from the batches
\* that succeeded, and neither file is written, then or later in that run.
C27_FailedBatchAbortsBuild ==
    /\ [](rag_pc \in {"embedded", "built", "index_written", "saved"}
            => rag_embeddings = rag_chunks)
    /\ [][BatchFails =>
            (/\ rag_pc' = "failed"
             /\ rag_embeddings' = None /\ rag_index' = None
             /\ file_index' = file_index /\ file_meta' = file_meta)]_vars
    /\ [][rag_pc = "failed" =>
            (/\ rag_pc' = "new"
             /\ file_index' = file_index /\ file_meta' = file_meta)]_vars

\* a build whose second batch failed: nothing stored, nothing on disk
C27_Witness ==
    /\ rag_pc = "failed"
    /\ 0 < all_embeddings /\ all_embeddings < rag_chunks
    /\ rag_embeddings = None /\ rag_index = None
    /\ file_index = None /\ file_meta = None

\* ---------------------------------------------------------------------------
\* categorize_error and handle_openai_error (error_handling.py:258-394)
\* An exception is its type name and the set of the tested phrases that its
\* lower-cased message contains.
\* ---------------------------------------------------------------------------

ExceptionTypes == {"RateLimitError", "AuthenticationError", "ConnectionError",
                   "Timeout", "TimeoutError", "Exception"}

\* "exceeded your current quota" contains "quota" and "incorrect api key"
\* contains "api key", so the second test of lines 275 and 384 adds nothing
Phrases == {"rate limit", "quota", "api key", "authentication", "overloaded",
            "faiss", "index", "signal-cli"}

\* error_handling.py:268-293
CategorizeError(ty, ph) ==
    IF "rate limit" \in ph \/ ty = "RateLimitError" THEN "API_RATE_LIMIT"
    ELSE IF "quota" \in ph THEN "API_QUOTA_EXCEEDED"
    ELSE IF "api key" \in ph \/ "authentication" \in ph THEN "API_AUTH_ERROR"
    ELSE IF "overloaded" \in ph THEN "API_OVERLOAD"
    ELSE IF ty \in {"ConnectionError", "Timeout", "TimeoutError"} THEN "NETWORK_ERROR"
    ELSE IF "faiss" \in ph \/ "index" \in ph THEN "INDEX_ERROR"
    ELSE IF "signal-cli" \in ph THEN "SIGNAL_ERROR"
    ELSE "UNKNOWN_ERROR"

\* error_handling.py:374-394
HandleOpenAIError(ty, ph) ==
    IF "rate limit" \in ph \/ ty = "RateLimitError" THEN "RETRY_WITH_BACKOFF"
    ELSE IF "quota" \in ph THEN "ALERT_ADMIN"
    ELSE IF "api key" \in ph THEN "CRITICAL_ALERT"
    ELSE IF "overloaded" \in ph THEN "RETRY_WITH_BACKOFF"
    ELSE "LOG_AND_CONTINUE"

\* categorize_error(error)
ErrCategorize ==
    /\ e_category = "none"
    /\ e_category' = CategorizeError(e_type, e_phrases)
    /\ UNCHANGED <<e_type, e_phrases, e_action>>
    /\ UNCHANGED OutsideErr

\* handle_openai_error(error)
ErrHandle ==
    /\ e_action = "none"
    /\ e_action' = HandleOpenAIError(e_type, e_phrases)
    /\ UNCHANGED <<e_type, e_phrases, e_category>>
    /\ UNCHANGED OutsideErr

\* an exception of the external service has been caught
InitErr ==
    /\ now = 0
    /\ CBNew(5, 60)
    /\ RLNew
    /\ ThreadsIdle
    /\ BotNew
    /\ ChunkIdle
    /\ RetryEntered(3, 1)
    /\ AnomalyNew /\ RagNew /\ NoFiles /\ AlertNew(10, 300)
    /\ e_type \in ExceptionTypes
    /\ e_phrases \in SUBSET Phrases
    /\ e_category = "none"
    /\ e_action = "none"

NextErr == ErrCategorize \/ ErrHandle

SpecErr == InitErr /\ [][NextErr]_vars

\* the message speaks of an exceeded quota, or of the API key or authentication
QuotaOrAuth ==
    "quota" \in e_phrases \/ "api key" \in e_phrases \/ "authentication" \in e_phrases

\* C28: an error that is a quota-exceeded or authentication / API-key failure
\* is never given the action RETRY_WITH_BACKOFF by handle_openai_error,
\* whatever its exception type and whatever else its message contains: it is
\* escalated with ALERT_ADMIN or CRITICAL_ALERT.
C28_QuotaAuthEscalated ==
    (QuotaOrAuth /\ e_action # "none") =>
        e_action \in {"ALERT_ADMIN", "CRITICAL_ALERT"}

\* C29: an error categorized NETWORK_ERROR (ConnectionError, Timeout,
\* TimeoutError) is given a retry action by handle_openai_error, like
\* rate-limit and overload errors.
C29_NetworkRetried ==
    (e_category = "NETWORK_ERROR" /\ e_action # "none") =>
        e_action = "RETRY_WITH_BACKOFF"

\* ---------------------------------------------------------------------------
\* AlertManager.handle_error (monitoring.py:284-300)
\* ---------------------------------------------------------------------------

\* monitoring.py:292-295: the type has an entry and the time since it is less
\* than the cooldown
\* (variant: the cooldown ends one second early)
InCooldown_Short(last, t, cd) == last # None /\ t - last < cd - 1
InCooldown(last, t, cd) == last # None /\ t - last < cd

\* monitoring.py:299: the entries after an alert of error_type, t being the
\* second reading of the clock
AlertsAfter(la, error_type, t) == [la EXCEPT ![error_type] = t]

\* monitoring.py:295-296: a call inside the cooldown returns at once; the
\* entries stay as they are
\* (variant: the suppressed call renews the entry of its type)
AlertsOnSuppress_Renew(la, error_type, t) == [la EXCEPT ![error_type] = t]
AlertsOnSuppress(la, error_type, t) == la

\* handle_error(error_type, severity, message).  The clock is read at line 293;
\* send_alert runs at a time t1 after that (298), and the clock is read again
\* d later than the first time for the entry (299).
HandleError(error_type, t1, d) ==
    /\ Len(sent) < MaxAlerts
    /\ IF InCooldown(last_alerts[error_type], now, cooldown_seconds)
         THEN /\ al_call' = [type |-> error_type, time |-> now, sent |-> FALSE]
              /\ last_alerts' = AlertsOnSuppress(last_alerts, error_type, now)
              /\ UNCHANGED <<now, sent>>
         ELSE /\ now + d <= MaxAlertTime
              /\ t1 \in now..(now + d)
              /\ al_call' = [type |-> error_type, time |-> now, sent |-> TRUE]
              /\ sent' = Append(sent, <<error_type, t1>>)
              /\ last_alerts' = AlertsAfter(last_alerts, error_type, now + d)
              /\ now' = now + d
    /\ UNCHANGED <<error_rate_threshold, cooldown_seconds, rate_call>>
    /\ UNCHANGED OutsideAlert

AlertTick == now < MaxAlertTime /\ Tick

InitAlert ==
    /\ now = 0
    /\ CBNew(5, 60)
    /\ RLNew
    /\ ThreadsIdle
    /\ BotNew
    /\ ChunkIdle
    /\ RetryEntered(3, 1)
    /\ AnomalyNew /\ RagNew /\ NoFiles /\ ErrIdle
    /\ \E cd \in 0..MaxCooldown : AlertNew(10, cd)

NextAlert ==
    \/ \E ty \in ErrorTypes, d \in 0..MaxFuncTime :
          \E t1 \in now..(now + d) : HandleError(ty, t1, d)
    \/ AlertTick

SpecAlert == InitAlert /\ [][NextAlert]_vars

\* the alerts of one type, in the order they were sent
AlertTimes(ty) == SelectSeq(sent, LAMBDA a : a[1] = ty)

\* C30: over any sequence of handle_error calls the first call for an error
\* type sends an alert, no alert of a type is sent less than cooldown_seconds
\* after the alert of that type sent before it, and a call is held back only
\* by an alert of its own type.
C30_CooldownPerType ==
    /\ \A ty \in ErrorTypes :
         \A i \in 1..(Len(AlertTimes(ty)) - 1) :
            AlertTimes(ty)[i + 1][2] - AlertTimes(ty)[i][2] >= cooldown_seconds
    /\ (al_call.type # "none" /\ ~al_call.sent) =>
         /\ AlertTimes(al_call.type) # <<>>
         /\ al_call.time - last_alerts[al_call.type] < cooldown_seconds

\* two alerts of one type a cooldown apart, an alert of the other type in
\* between, and a call held back
C30_Witness ==
    /\ cooldown_seconds > 0
    /\ Len(AlertTimes("e1")) >= 2
    /\ \E i \in 1..Len(sent) :
          /\ sent[i][1] = "e2"
          /\ sent[i][2] - AlertTimes("e1")[1][2] < cooldown_seconds
    /\ al_call.type = "e1" /\ ~al_call.sent

\* ---------------------------------------------------------------------------
\* AlertManager.check_error_rate (monitoring.py:302-309)
\* ---------------------------------------------------------------------------

\* the error rates given to check_error_rate, in percent
Rates == 0..(MaxRate + 1)

\* monitoring.py:304: the test that lets check_error_rate alert
\* (variant: the alert is held back by the cooldown of its type as well)
RateAlertDue_Cooldown(error_rate, th, la, t, cd) ==
    error_rate > th /\ ~InCooldown(la["HIGH_ERROR_RATE"], t, cd)
RateAlertDue(error_rate, th, la, t, cd) == error_rate > th

\* check_error_rate(error_rate): send_alert with error_type HIGH_ERROR_RATE
\* (305-309); last_alerts is neither read nor written
CheckErrorRate(error_rate) ==
    /\ Len(sent) < MaxAlerts
    /\ sent' = IF RateAlertDue(error_rate, error_rate_threshold, last_alerts,
                               now, cooldown_seconds)
                 THEN Append(sent, <<"HIGH_ERROR_RATE", now>>)
                 ELSE sent
    /\ rate_call' = error_rate
    /\ UNCHANGED <<now, error_rate_threshold, cooldown_seconds, last_alerts,
                   al_call>>
    /\ UNCHANGED OutsideAlert

RateTick == now < MaxRateTime /\ Tick

\* an AlertManager with any threshold and cooldown
InitAlertRate ==
    /\ now = 0
    /\ CBNew(5, 60)
    /\ RLNew
    /\ ThreadsIdle
    /\ BotNew
    /\ ChunkIdle
    /\ RetryEntered(3, 1)
    /\ AnomalyNew /\ RagNew /\ NoFiles /\ ErrIdle
    /\ \E th \in 0..MaxRate, cd \in 0..MaxCooldown : AlertNew(th, cd)

\* handle_error is called with the type check_error_rate alerts with, so that
\* the type has an entry in last_alerts
NextAlertRate ==
    \/ \E d \in 0..MaxFuncTime :
          \E t1 \in now..(now + d) : HandleError("HIGH_ERROR_RATE", t1, d)
    \/ \E r \in Rates : CheckErrorRate(r)
    \/ RateTick

SpecAlertRate == InitAlertRate /\ [][NextAlertRate]_vars

\* C31: check_error_rate(rate) sends a HIGH_ERROR_RATE alert if and only if
\* rate > error_rate_threshold, whatever handle_error has recorded: it leaves
\* last_alerts as it is, and a call above the threshold sends an alert also
\* inside the cooldown of the type.
C31_RateAlertIndependent ==
    [][\A r \in Rates :
         CheckErrorRate(r) =>
            /\ (r > error_rate_threshold =>
                  sent' = Append(sent, <<"HIGH_ERROR_RATE", now>>))
            /\ (~(r > error_rate_threshold) => sent' = sent)
            /\ last_alerts' = last_alerts]_vars

\* two HIGH_ERROR_RATE alerts less than a cooldown apart, the later one sent
\* while the entry of the type was younger than the cooldown
C31_Witness ==
    /\ last_alerts["HIGH_ERROR_RATE"] # None
    /\ now - last_alerts["HIGH_ERROR_RATE"] < cooldown_seconds
    /\ Len(sent) >= 2
    /\ sent[Len(sent)] = <<"HIGH_ERROR_RATE", now>>
    /\ sent[Len(sent)][2] - sent[Len(sent) - 1][2] < cooldown_seconds

\* ---------------------------------------------------------------------------
\* CustomRAG.search on the instance of the bot (signal_bot_rag.py:48-50)
\* while load_index runs on that instance.  load_index assigns self.index
\* (custom_rag.py:142) and self.chunks (145) one after the other; search reads
\* self.index (159) and self.chunks (163) one after the other; neither takes
\* a lock.  A build is known by its number of chunks.
\* ---------------------------------------------------------------------------

\* search, custom_rag.py:152-159: the query is embedded and self.index is
\* searched
ServeSearchIndex(k, order) ==
    /\ srv_pc = "idle"
    /\ rag_index # None
    /\ order \in NearestOrders(rag_index, MinOf2(k, rag_index))
    /\ srv_labels' = FaissLabels(order, k)
    /\ srv_seen' = <<rag_index, None>>
    /\ srv_pc' = "join"
    /\ UNCHANGED ragVars
    /\ UNCHANGED OutsideServe

\* search, custom_rag.py:162-169: each label is looked up in self.chunks
ServeSearchJoin ==
    /\ srv_pc = "join"
    /\ srv_seen' = <<srv_seen[1], rag_chunks>>
    /\ srv_pc' = "idle"
    /\ UNCHANGED srv_labels
    /\ UNCHANGED ragVars
    /\ UNCHANGED OutsideServe

\* the bot after its start: the instance holds the index and the chunks of one
\* build, the two files hold those of a later build
InitRagServe ==
    /\ now = 0
    /\ CBNew(5, 60)
    /\ RLNew
    /\ ThreadsIdle
    /\ BotNew
    /\ ChunkIdle
    /\ RetryEntered(3, 1)
    /\ AnomalyNew /\ ErrIdle /\ AlertNew(10, 300)
    /\ ServeIdle
    /\ rag_pc = "loaded"
    /\ \E n \in 1..MaxRagChunks : rag_index = n /\ rag_chunks = n
    /\ all_embeddings = 0
    /\ rag_embeddings = None
    /\ s_k = 0
    /\ s_results = <<>>
    /\ s_outcome = "none"
    /\ \E n \in 1..MaxRagChunks : file_index = n /\ file_meta = n

NextRagServe ==
    \/ RagLoadIndexFile
    \/ RagLoadMeta
    \/ \E k \in 1..MaxK :
         \E order \in NearestOrders(rag_index, MinOf2(k, rag_index)) :
             ServeSearchIndex(k, order)
    \/ ServeSearchJoin

SpecRagServe == InitRagServe /\ [][NextRagServe]_vars

\* C32: while requests are being served, a reload of the index is swapped in
\* atomically: no search reads the vector index of one build together with
\* the chunk metadata of another.
C32_SearchSeesOneBuild ==
    (srv_pc = "idle" /\ srv_seen[2] # None) => srv_seen[1] = srv_seen[2]

\* ---------------------------------------------------------------------------
\* CircuitBreaker (security.py:222-279): further properties, under SpecCB
\* ---------------------------------------------------------------------------

\* C33: in sequential use, after every completed call the state is Closed or
\* Open and never HalfOpen; Open implies failure_count >= failure_threshold
\* and a set last_failure_time; Closed implies failure_count <
\* failure_threshold when failure_threshold >= 1.
C33_StateAfterCall ==
    cb_outcome # "none" =>
       /\ state \in {"closed", "open"}
       /\ (state = "open" =>
             (failure_count >= failure_threshold /\ last_failure_time # None))
       /\ ((state = "closed" /\ failure_threshold >= 1) =>
             failure_count < failure_threshold)

\* a breaker closed again by a success in half_open, after it had opened at
\* the threshold
C33_Witness ==
    /\ failure_threshold >= 2
    /\ state = "closed" /\ failure_count = 0
    /\ last_failure_time # None /\ now - last_failure_time > timeout
    /\ cb_outcome = "returned"

\* C34: while the breaker is Closed a successful call leaves failure_count
\* unchanged, so failures add up across the successes between them: a failing
\* call that follows a success opens the breaker exactly when it is the
\* failure_threshold-th failure counted since the breaker last closed.
C34_FailuresAccumulate ==
    /\ [][(state = "closed" /\ \E d \in 0..MaxFuncTime : CBSuccess(d))
            => (/\ failure_count' = failure_count
                /\ last_failure_time' = last_failure_time
                /\ state' = "closed")]_vars
    /\ [][(/\ state = "closed" /\ cb_outcome = "returned"
           /\ failure_threshold >= 1
           /\ \E d \in 0..MaxFuncTime : CBFailure(d))
            => (/\ failure_count' = failure_count + 1
                /\ (state' = "open") = (failure_count + 1 = failure_threshold))]_vars

\* a success has returned in Closed, one failure short of the threshold: the
\* failures before it still count
C34_Witness ==
    /\ failure_threshold >= 2
    /\ state = "closed" /\ failure_count = failure_threshold - 1
    /\ cb_outcome = "returned" /\ cb_invoked = TRUE

\* C35: a call rejected because the circuit is Open changes nothing: state,
\* failure_count and last_failure_time stay as they were, so rejected calls
\* do not extend the open period.
C35_RejectChangesNothing ==
    [][(CBCall /\ cb_outcome' = "raised_open")
         => (/\ state' = state
             /\ failure_count' = failure_count
             /\ last_failure_time' = last_failure_time
             /\ cb_invoked' = FALSE)]_vars

\* a call rejected some time after the failure that opened the breaker
C35_Witness ==
    /\ state = "open" /\ cb_outcome = "raised_open"
    /\ last_failure_time < now
    /\ now - last_failure_time <= timeout

\* ---------------------------------------------------------------------------
\* CircuitBreaker with an operation that fails for a while and then always
\* succeeds.  The clock of the model ends at MaxTime, so the operation stops
\* failing early enough for the timeout to elapse after its last failure.
\* ---------------------------------------------------------------------------

\* a call whose operation raises, while the operation can still fail
CBFailureWhileFaulty(d) ==
    /\ now + d + timeout + 1 <= MaxTime
    /\ CBFailure(d)

NextCBLive ==
    \/ CBReject
    \/ \E d \in 0..MaxFuncTime : CBSuccess(d)
    \/ \E d \in 0..MaxFuncTime : CBFailureWhileFaulty(d)
    \/ Tick

\* time keeps advancing (Tick) and calls keep being made, their operation
\* returning at once when it can no longer fail (CBSuccess(0))
SpecCBLive ==
    /\ InitCB
    /\ [][NextCBLive]_vars
    /\ WF_vars(Tick)
    /\ WF_vars(CBSuccess(0))

\* C36: if from some point on the wrapped operation always succeeds, time
\* keeps advancing and calls keep being made, the breaker eventually becomes
\* Closed and remains Closed from then on.
C36_EventuallyClosedForGood ==
    <>[](state = "closed")

\* the breaker has opened, and is closed again when the operation can no
\* longer fail
C36_Witness ==
    /\ state = "closed" /\ failure_count = 0
    /\ last_failure_time # None
    /\ cb_outcome = "returned"
    /\ now + timeout + 1 > MaxTime

\* ---------------------------------------------------------------------------
\* The message loop: further properties, under SpecBot
\* ---------------------------------------------------------------------------

\* the current message came from an activated sender, was accepted by the
\* rate limiter and is no command, and the loop is through with it
AnsweredCase ==
    /\ b_pc = "idle"
    /\ "rate" \in StagesOf(stages)
    /\ cur.id \notin denied
    /\ cur.kind \notin {"reset", "help"}

\* C37: get_rag_response never raises: every message of an activated sender
\* that the rate limiter accepts and that is no command gets exactly one
\* reply (the answer, the validation error, the threat warning, the notice of
\* the open circuit or the text of the error), whatever step fails; the reply
\* is made when the message is through, not before.
C37_AlwaysOneReply ==
    /\ [](AnsweredCase =>
            reply \in {"answer", "invalid_input", "threat_warning",
                       "unavailable", "error"})
    /\ [](b_pc # "idle" => reply = "none")
    /\ [][(reply # "none" /\ reply' # reply) => b_pc' # "idle" \/ cur'.id # cur.id]_vars

\* a question whose generation call raised: the text of the error is the reply
C37_Witness ==
    /\ AnsweredCase
    /\ cur.kind = "question"
    /\ cur.id \in generated
    /\ cb_outcome = "raised_func"
    /\ reply = "error"

\* the loop takes the next message
TakeStep == b_pc = "idle" /\ msg_count' = msg_count + 1

\* rag.search or call_openai is called
InvokeStep == searched' # searched \/ generated' # generated

\* C38 as stated: retrieval and generation are invoked for a message only if
\* its sender is already activated and check_rate_limit accepted the message,
\* and every message of a sender that is not activated produces no reply and
\* consumes no rate-limit slot.
C38_NonActivatedGetsNothing ==
    /\ [][InvokeStep =>
            (/\ cur.sender \in activated_users
             /\ rl_user = cur.sender /\ rl_result = TRUE
             /\ cur.id \notin denied)]_vars
    /\ [][(TakeStep /\ cur'.sender \notin activated_users) =>
            (/\ reply' = "none"
             /\ b_pc' = "idle"
             /\ user_messages' = user_messages
             /\ accepted' = accepted)]_vars

\* C38, amended: retrieval and generation are invoked for a message only if
\* its sender is already activated and check_rate_limit accepted the message;
\* a message of a sender that is not activated consumes no rate-limit slot,
\* and it produces no reply unless it is the activation passphrase, which is
\* answered with the welcome text and activates the sender.
C38_OnlyPassphraseAnswered ==
    /\ []((searched \cup generated) \cap denied = {})
    /\ [][InvokeStep =>
            (/\ cur.sender \in activated_users
             /\ "rate" \in StagesOf(stages)
             /\ rl_user = cur.sender /\ rl_result = TRUE
             /\ cur.id \notin denied)]_vars
    /\ [][(TakeStep /\ cur'.sender \notin activated_users) =>
            (/\ b_pc' = "idle"
             /\ user_messages' = user_messages
             /\ accepted' = accepted
             /\ reply' = IF cur'.kind = "passphrase" THEN "welcome" ELSE "none"
             /\ activated_users' =
                   IF cur'.kind = "passphrase"
                     THEN activated_users \cup {cur'.sender}
                     ELSE activated_users)]_vars

\* a question of a sender that is not activated has been ignored, after
\* earlier messages of that sender
C38_Witness ==
    /\ b_pc = "idle" /\ msg_count >= 2
    /\ cur.kind = "question"
    /\ cur.sender \notin activated_users
    /\ reply = "none" /\ stages = <<>>
    /\ user_messages[cur.sender] = <<>>
    /\ searched = {} /\ generated = {}

\* ---------------------------------------------------------------------------
\* AlertManager.handle_error: further properties, under SpecAlert
\* ---------------------------------------------------------------------------

\* handle_error has just been called
HandleStep == al_call' # al_call

C40_FailedLoadKeepsInstance ==
    rag_pc = "load_failed" => (rag_index = None /\ rag_chunks = 0)

====
